---------------------------- MODULE Spec2Model ----------------------------
(***************************************************************************)
(* A model of cvcraft: the markdown front-matter and section parser        *)
(* (src/src/parser.ts), the CSS theme registry with its colour             *)
(* customisation and the ThemeManager (src/src/themes.ts), the Word        *)
(* converter (src/src/converter.ts) and the preview of the web editor      *)
(* (src/web/main.ts).                                                      *)
(*                                                                         *)
(* Text is modelled as a sequence of one-character strings, so that the    *)
(* regular expressions, split, indexOf, trim and replace of the source are *)
(* computed character by character, as the JavaScript engine does.         *)
(***************************************************************************)
EXTENDS Integers, Sequences, FiniteSets, TLC

VARIABLES
    markdown,      \* parser: the input text handed to MarkdownParser.parse
    parsed,        \* parser: <<>> before the call, <<ParsedContent>> after it
    colorCall,     \* colour: the pending darkenColor/lightenColor call
    colorResult,   \* colour: <<>> before the call, <<string>> after it
    dirExists,     \* file system: whether the themes directory exists
    files,         \* file system: file name -> <<>> (absent) or <<content>>
    themes,        \* CSSThemeManager.themes: theme name -> ThemeInfo
    procs,         \* the initialize()/refreshThemes() calls in progress
    cssCall,       \* the getThemeCSS call waiting for its readFile, or <<>>
    cssResult,     \* how the last getThemeCSS call ended, or <<>>
    lastRefresh,   \* what the last completed refreshThemes() left behind
    fsOps,         \* the number of file-system changes made so far
    tmThemes,      \* ThemeManager.themes: the Theme definitions, in Map order
    tmPc,          \* the ThemeManager call in progress, or "idle"
    tmResult,      \* how the last ThemeManager.getTheme call ended, or <<>>
    wordCall,      \* converter: the markup, metadata and theme to convert
    wordResult,    \* converter: <<>> before the call, <<result>> after it
    editorValue,   \* web editor: the text of the markdown textarea
    currentTheme,  \* web editor: CVCraftApp.currentTheme
    currentCustomization, \* web editor: CVCraftApp.currentCustomization
    debounceTimer, \* web editor: whether the preview timer is pending
    saveTimer,     \* web editor: whether the save timer is pending
    localStorage,  \* web editor: the saved editor data, or <<>>
    modal,         \* web editor: the customization modal, closed to open
    previewRequests, \* web editor: the /api/preview requests in flight
    issued,        \* web editor: how many preview requests were sent
    previewContent, \* web editor: what the preview pane shows
    atsWarnings    \* web editor: the text the warnings shown were made from

parserVars == <<markdown, parsed>>

colorVars == <<colorCall, colorResult>>

fsVars == <<dirExists, files, fsOps>>

registryVars == <<themes, procs, cssCall, cssResult, lastRefresh>>

managerVars == <<tmThemes, tmPc, tmResult>>

converterVars == <<wordCall, wordResult>>

webVars == <<editorValue, currentTheme, currentCustomization, debounceTimer,
             saveTimer, localStorage, modal, previewRequests, issued,
             previewContent, atsWarnings>>

vars == <<markdown, parsed, colorCall, colorResult, dirExists, files, themes,
          procs, cssCall, cssResult, lastRefresh, fsOps, tmThemes, tmPc,
          tmResult, wordCall, wordResult, editorValue, currentTheme,
          currentCustomization, debounceTimer, saveTimer, localStorage, modal,
          previewRequests, issued, previewContent, atsWarnings>>

\* The parts of the state a specification does not exercise stay as they are
\* after construction: no parse asked for, no colour call pending, no theme
\* directory looked at.
ParserIdle == markdown = <<>> /\ parsed = <<>>

ColorIdle == colorCall = <<>> /\ colorResult = <<>>

RegistryIdle ==
    /\ dirExists = FALSE
    /\ files = <<>>
    /\ themes = <<>>
    /\ procs = <<>>
    /\ cssCall = <<>>
    /\ cssResult = <<>>
    /\ lastRefresh = <<>>
    /\ fsOps = 0

ManagerIdle == tmThemes = <<>> /\ tmPc = "idle" /\ tmResult = <<>>

ConverterIdle == wordCall = <<>> /\ wordResult = <<>>

WebIdle ==
    /\ editorValue = <<>>
    /\ currentTheme = "modern"
    /\ currentCustomization = <<>>
    /\ debounceTimer = FALSE
    /\ saveTimer = FALSE
    /\ localStorage = <<>>
    /\ modal = "closed"
    /\ previewRequests = {}
    /\ issued = 0
    /\ previewContent = <<>>
    /\ atsWarnings = <<>>

---------------------------------------------------------------------------
(* Generic string helpers (JavaScript String methods).                     *)

\* \s of a JavaScript regular expression and the characters trim() removes,
\* restricted to the characters the model's texts are built from.
Whitespace == {" ", "\n", "\t"}

IsWhitespace(c) == c \in Whitespace

\* \d of a regular expression.
Digits == {"0", "1", "2", "3", "4", "5", "6", "7", "8", "9"}

\* s.substring(from) with a 0-based index.
Substring(s, from) == SubSeq(s, from + 1, Len(s))

\* s.substring(from, to) with 0-based indexes, to exclusive.
SubstringTo(s, from, to) == SubSeq(s, from + 1, to)

\* s.indexOf(c): the 0-based index of the first c, or -1.
IndexOf(s, c) ==
    IF \E i \in 1..Len(s) : s[i] = c
    THEN (CHOOSE i \in 1..Len(s) : s[i] = c /\ \A j \in 1..(i - 1) : s[j] # c) - 1
    ELSE -1

\* The number of leading characters of s that are in the set chars.
LeadingRun(s, chars) ==
    IF \A i \in 1..Len(s) : s[i] \in chars
    THEN Len(s)
    ELSE (CHOOSE i \in 1..Len(s) : s[i] \notin chars /\ \A j \in 1..(i - 1) : s[j] \in chars) - 1

\* The number of trailing characters of s that are in the set chars.
TrailingRun(s, chars) ==
    IF \A i \in 1..Len(s) : s[i] \in chars
    THEN Len(s)
    ELSE Len(s) - (CHOOSE i \in 1..Len(s) :
                       s[i] \notin chars /\ \A j \in (i + 1)..Len(s) : s[j] \in chars)

\* s.trim()
Trim(s) ==
    LET lead == LeadingRun(s, Whitespace)
    IN  IF lead = Len(s) THEN <<>>
        ELSE SubSeq(s, lead + 1, Len(s) - TrailingRun(s, Whitespace))

\* s.startsWith(p)
StartsWith(s, p) == Len(s) >= Len(p) /\ SubSeq(s, 1, Len(p)) = p

\* s.split('\n'): the lines of s; the empty text has the one line ''.
RECURSIVE SplitLines(_)
SplitLines(s) ==
    LET nl == IndexOf(s, "\n")
    IN  IF nl = -1 THEN <<s>>
        ELSE <<SubstringTo(s, 0, nl)>> \o SplitLines(Substring(s, nl + 1))

\* lines.join('\n')
RECURSIVE JoinLines(_)
JoinLines(lines) ==
    IF Len(lines) = 0 THEN <<>>
    ELSE IF Len(lines) = 1 THEN lines[1]
    ELSE lines[1] \o <<"\n">> \o JoinLines(Tail(lines))

---------------------------------------------------------------------------
(* MarkdownParser.extractFrontMatter                                       *)

\* An empty Record<string, string>.
EmptyMetadata == [k \in {} |-> <<>>]

\* metadata[key] = value
MetadataSet(metadata, key, value) ==
    [k \in (DOMAIN metadata) \cup {key} |-> IF k = key THEN value ELSE metadata[k]]

\* The positions p at which the pattern  \n---\s*\n  can start in text, each
\* with the position of the \n that ends it when \s* is taken greedily.
ClosingAt(text, p) ==
    /\ p + 3 <= Len(text)
    /\ text[p] = "\n"
    /\ SubSeq(text, p + 1, p + 3) = <<"-", "-", "-">>
    /\ \E e \in (p + 4)..Len(text) :
          /\ text[e] = "\n"
          /\ \A i \in (p + 4)..(e - 1) : IsWhitespace(text[i])

ClosingEnd(text, p) ==
    CHOOSE e \in (p + 4)..Len(text) :
        /\ text[e] = "\n"
        /\ \A i \in (p + 4)..(e - 1) : IsWhitespace(text[i])
        /\ \A f \in (e + 1)..Len(text) :
              ~(text[f] = "\n" /\ \A i \in (p + 4)..(f - 1) : IsWhitespace(text[i]))

\* The positions of the \n that can end the opening  ^---\s*\n .
OpeningEnds(text) ==
    IF ~StartsWith(text, <<"-", "-", "-">>) THEN {}
    ELSE {o \in 4..Len(text) :
            /\ text[o] = "\n"
            /\ \A i \in 4..(o - 1) : IsWhitespace(text[i])}

\* markdown.match(/^---\s*\n([\s\S]*?)\n---\s*\n([\s\S]*)$/), by the order in
\* which a backtracking matcher tries the alternatives: the opening \s* greedy
\* (the longest opening that lets the rest match), the first group lazy (the
\* first closing after it), the closing \s* greedy, the second group the rest.
\* The result is <<>> for no match, else <<[yaml, content]>>.
FrontMatterMatch(text) ==
    LET opens == {o \in OpeningEnds(text) :
                    \E p \in (o + 1)..Len(text) : ClosingAt(text, p)}
    IN  IF opens = {} THEN <<>>
        ELSE LET o == CHOOSE x \in opens : \A y \in opens : y <= x
                 p == CHOOSE x \in (o + 1)..Len(text) :
                         /\ ClosingAt(text, x)
                         /\ \A y \in (o + 1)..(x - 1) : ~ClosingAt(text, y)
                 e == ClosingEnd(text, p)
             IN  <<[yaml |-> SubSeq(text, o + 1, p - 1),
                    content |-> SubSeq(text, e + 1, Len(text))]>>

\* The body of the forEach over the lines of the block.
MetadataLine(metadata, line) ==
    LET colonIndex == IndexOf(line, ":")
    IN  IF colonIndex > 0
        THEN MetadataSet(metadata,
                         Trim(SubstringTo(line, 0, colonIndex)),
                         Trim(Substring(line, colonIndex + 1)))
        ELSE metadata

RECURSIVE MetadataOfLines(_, _)
MetadataOfLines(metadata, lines) ==
    IF Len(lines) = 0 THEN metadata
    ELSE MetadataOfLines(MetadataLine(metadata, lines[1]), Tail(lines))

\* A mutant of extractFrontMatter: an opening delimiter that is never closed
\* still opens a metadata block, which then runs to the end of the text.
extractFrontMatterUnclosed(text) ==
    LET match == FrontMatterMatch(text)
        opens == OpeningEnds(text)
    IN  IF match # <<>>
        THEN [content |-> match[1].content,
              metadata |-> MetadataOfLines(EmptyMetadata, SplitLines(match[1].yaml))]
        ELSE IF opens = {}
        THEN [content |-> text, metadata |-> EmptyMetadata]
        ELSE LET o == CHOOSE x \in opens : \A y \in opens : x <= y
             IN  [content |-> <<>>,
                  metadata |-> MetadataOfLines(EmptyMetadata,
                                               SplitLines(SubSeq(text, o + 1, Len(text))))]

extractFrontMatter(text) ==
    LET match == FrontMatterMatch(text)
    IN  IF match = <<>>
        THEN [content |-> text, metadata |-> EmptyMetadata]
        ELSE [content |-> match[1].content,
              metadata |-> MetadataOfLines(EmptyMetadata, SplitLines(match[1].yaml))]

---------------------------------------------------------------------------
(* MarkdownParser.parseSections                                            *)

\* A Section. level = 0 stands for an absent level, hasItems = FALSE for an
\* absent items array.
HeaderSection(content, level) ==
    [type |-> "header", content |-> content, level |-> level,
     hasItems |-> FALSE, items |-> <<>>]

\* A mutant of ListSection: the list section is opened without its items
\* array.
ListSectionNoItems ==
    [type |-> "list", content |-> <<>>, level |-> 0, hasItems |-> FALSE, items |-> <<>>]

ListSection ==
    [type |-> "list", content |-> <<>>, level |-> 0, hasItems |-> TRUE, items |-> <<>>]

ParagraphSection(content) ==
    [type |-> "paragraph", content |-> content, level |-> 0,
     hasItems |-> FALSE, items |-> <<>>]

\* A mutant of HeaderLevel: every header is given level 1.
HeaderLevelAlwaysOne(line) == 1

\* line.match(/^#+/)?.[0].length || 1
HeaderLevel(line) ==
    LET run == LeadingRun(line, {"#"})
    IN  IF run = 0 THEN 1 ELSE run

\* line.replace(/^#+\s*/, '')
HeaderContent(line) ==
    LET hashes == LeadingRun(line, {"#"})
        rest == Substring(line, hashes)
    IN  IF hashes = 0 THEN line
        ELSE Substring(rest, LeadingRun(rest, Whitespace))

\* line.match(/^\d+\./)
StartsWithOrderedMarker(line) ==
    LET digits == LeadingRun(line, Digits)
    IN  digits > 0 /\ digits < Len(line) /\ line[digits + 1] = "."

\* The list-item test of parseSections.
IsListLine(line) ==
    \/ StartsWith(line, <<"-", " ">>)
    \/ StartsWith(line, <<"*", " ">>)
    \/ StartsWithOrderedMarker(line)

\* Whether  \d+\.  matches at the 1-based position p of line.
OrderedMarkerAt(line, p) == StartsWithOrderedMarker(Substring(line, p - 1))

\* A mutant of ListItemText: the marker is left on the item.
ListItemTextWithMarker(line) == line

\* line.replace(/^[-*]\s*|\d+\.\s*/, ''): the leftmost match is removed, which
\* is the first alternative at the start of the line when it begins with - or
\* *, and else the first place where digits and a period stand.
ListItemText(line) ==
    IF Len(line) > 0 /\ line[1] \in {"-", "*"}
    THEN LET rest == Substring(line, 1)
         IN  Substring(rest, LeadingRun(rest, Whitespace))
    ELSE IF \E p \in 1..Len(line) : OrderedMarkerAt(line, p)
    THEN LET p == CHOOSE x \in 1..Len(line) :
                      /\ OrderedMarkerAt(line, x)
                      /\ \A y \in 1..(x - 1) : ~OrderedMarkerAt(line, y)
             after == Substring(line, p - 1)
             rest == Substring(after, LeadingRun(after, Digits) + 1)
         IN  SubSeq(line, 1, p - 1) \o Substring(rest, LeadingRun(rest, Whitespace))
    ELSE line

\* A mutant of IsNonBlankLine: the test written as  line  instead of  line.trim() .
IsNonBlankLineUntrimmed(line) == line # <<>>

\* line.trim() as a condition: the line has a character that is not a blank.
IsNonBlankLine(line) == Trim(line) # <<>>

\* One iteration of the loop over the lines. st is [sections, current], with
\* current the open section: <<>> for null, else <<section>>.
SectionStep(st, line) ==
    LET cur == st.current
        closed == IF cur = <<>> THEN st.sections ELSE Append(st.sections, cur[1])
    IN  IF StartsWith(line, <<"#">>)
        THEN [sections |-> closed,
              current |-> <<HeaderSection(HeaderContent(line), HeaderLevel(line))>>]
        ELSE IF IsListLine(line)
        THEN LET opened == IF cur = <<>> \/ cur[1].type # "list"
                            THEN [sections |-> closed, current |-> <<ListSection>>]
                            ELSE st
                 sec == opened.current[1]
             IN  [sections |-> opened.sections,
                  current |-> <<IF sec.hasItems
                                THEN [sec EXCEPT !.items = Append(@, ListItemText(line))]
                                ELSE sec>>]
        ELSE IF IsNonBlankLine(line) /\ cur # <<>> /\ cur[1].type = "header"
        THEN [sections |-> st.sections,
              current |-> <<[cur[1] EXCEPT !.type = "paragraph",
                                           !.content = @ \o <<"\n">> \o line]>>]
        ELSE IF IsNonBlankLine(line)
        THEN IF cur = <<>> \/ cur[1].type = "list"
             THEN [sections |-> closed, current |-> <<ParagraphSection(line)>>]
             ELSE [sections |-> st.sections,
                   current |-> <<[cur[1] EXCEPT !.content = @ \o <<"\n">> \o line]>>]
        ELSE st

RECURSIVE SectionLoop(_, _)
SectionLoop(st, lines) ==
    IF Len(lines) = 0 THEN st
    ELSE SectionLoop(SectionStep(st, lines[1]), Tail(lines))

parseSections(text) ==
    LET st == SectionLoop([sections |-> <<>>, current |-> <<>>], SplitLines(text))
    IN  IF st.current # <<>> THEN Append(st.sections, st.current[1]) ELSE st.sections

---------------------------------------------------------------------------
(* MarkdownParser.parse                                                    *)

\* The ParsedContent without its html field, which markdown-it renders from
\* the same content and which no section or metadata depends on.
parse(text) ==
    LET fm == extractFrontMatter(text)
    IN  [metadata |-> fm.metadata, sections |-> parseSections(fm.content)]

---------------------------------------------------------------------------
(* CSSThemeManager.darkenColor and lightenColor                            *)

LowerHexDigits ==
    <<"0", "1", "2", "3", "4", "5", "6", "7", "8", "9", "a", "b", "c", "d", "e", "f">>

UpperHexDigits ==
    <<"0", "1", "2", "3", "4", "5", "6", "7", "8", "9", "A", "B", "C", "D", "E", "F">>

HexDigitSet == {LowerHexDigits[i] : i \in 1..16} \cup {UpperHexDigits[i] : i \in 1..16}

\* The value of one hexadecimal digit, as parseInt reads it.
HexDigitValue(c) ==
    (CHOOSE i \in 1..16 : LowerHexDigits[i] = c \/ UpperHexDigits[i] = c) - 1

\* hex.replace('#', ''): the first '#' is removed.
RemoveFirstHash(hex) ==
    LET at == IndexOf(hex, "#")
    IN  IF at = -1 THEN hex ELSE SubstringTo(hex, 0, at) \o Substring(hex, at + 1)

RECURSIVE HexValueOf(_, _)
HexValueOf(acc, digits) ==
    IF Len(digits) = 0 THEN acc
    ELSE HexValueOf(16 * acc + HexDigitValue(digits[1]), Tail(digits))

\* parseInt(s, 16): the value of the longest prefix of hexadecimal digits, as
\* <<value>>; <<>> stands for NaN, which parseInt returns when s begins with
\* no hexadecimal digit.
ParseIntHex(s) ==
    LET run == LeadingRun(s, HexDigitSet)
    IN  IF run = 0 THEN <<>> ELSE <<HexValueOf(0, SubSeq(s, 1, run))>>

\* Math.round(2.55 * percent) for an integer percent of 0..100. The product is
\* an IEEE-754 double: 2.55 * 50 is 127.49999999999999 and 2.55 * 90 is
\* 229.49999999999997, which round down; every other product of the range
\* rounds as the exact product does.
RoundedAmount(percent) ==
    LET exact == (255 * percent + 50) \div 100
    IN  IF percent \in {50, 90} THEN exact - 1 ELSE exact

\* The three channels (num >> 16), ((num >> 8) & 0x00ff), (num & 0x0000ff) of
\* a num below 2^31 (a colour of up to seven hexadecimal digits), for which
\* the shifts and masks are a division and a remainder.
ChannelsOf(num) == <<num \div 65536, (num \div 256) % 256, num % 256>>

\* A mutant of ClampChannel: the low end is not clamped.
ClampChannelHighOnly(x) == IF x < 255 THEN x ELSE 255

\* (x < 255 ? (x < 1 ? 0 : x) : 255)
ClampChannel(x) == IF x < 255 THEN (IF x < 1 THEN 0 ELSE x) ELSE 255

\* n.toString(16) for n > 0: lowercase digits, no leading zero.
RECURSIVE ToHexString(_)
ToHexString(n) ==
    IF n < 16 THEN <<LowerHexDigits[n + 1]>>
    ELSE Append(ToHexString(n \div 16), LowerHexDigits[(n % 16) + 1])

\* '#' + (0x1000000 + R * 0x10000 + G * 0x100 + B).toString(16).slice(1) with
\* the clamped R, G, B. A channel computed from NaN compares false with 255
\* and is therefore 255.
FormatColor(parsedNum, delta) ==
    LET ch == IF parsedNum = <<>> THEN <<255, 255, 255>>
              ELSE LET raw == ChannelsOf(parsedNum[1])
                   IN  <<ClampChannel(raw[1] + delta),
                         ClampChannel(raw[2] + delta),
                         ClampChannel(raw[3] + delta)>>
    IN  <<"#">> \o Tail(ToHexString(16777216 + ch[1] * 65536 + ch[2] * 256 + ch[3]))

darkenColor(hex, percent) ==
    FormatColor(ParseIntHex(RemoveFirstHash(hex)), 0 - RoundedAmount(percent))

lightenColor(hex, percent) ==
    FormatColor(ParseIntHex(RemoveFirstHash(hex)), RoundedAmount(percent))

\* The colours handed to darkenColor and lightenColor: three channels of two
\* hexadecimal digits each, with or without a leading '#'.
ChannelChoices ==
    { <<"0", "0">>, <<"3", "3">>, <<"8", "0">>, <<"C", "c">>, <<"f", "f">> }

ColorChoices ==
    {prefix \o r \o g \o b :
        prefix \in {<<>>, <<"#">>},
        r \in ChannelChoices, g \in ChannelChoices, b \in ChannelChoices}

PercentChoices == 0..100

InitColor ==
    /\ colorCall \in {<<[op |-> op, hex |-> hex, percent |-> percent]>> :
                         op \in {"darken", "lighten"},
                         hex \in ColorChoices,
                         percent \in PercentChoices}
    /\ colorResult = <<>>
    /\ ParserIdle
    /\ RegistryIdle
    /\ ManagerIdle
    /\ ConverterIdle
    /\ WebIdle

\* this.darkenColor(hex, percent)
DarkenColor ==
    /\ colorCall # <<>> /\ colorCall[1].op = "darken" /\ colorResult = <<>>
    /\ colorResult' = <<darkenColor(colorCall[1].hex, colorCall[1].percent)>>
    /\ UNCHANGED <<colorCall, parserVars, fsVars, registryVars, managerVars, converterVars, webVars>>

\* this.lightenColor(hex, percent)
LightenColor ==
    /\ colorCall # <<>> /\ colorCall[1].op = "lighten" /\ colorResult = <<>>
    /\ colorResult' = <<lightenColor(colorCall[1].hex, colorCall[1].percent)>>
    /\ UNCHANGED <<colorCall, parserVars, fsVars, registryVars, managerVars, converterVars, webVars>>

NextColor == DarkenColor \/ LightenColor

SpecColor == InitColor /\ [][NextColor]_vars

\* The channel that the two hexadecimal digits at positions i and i + 1 of a
\* six-digit colour give.
ChannelAt(digits, i) == 16 * HexDigitValue(digits[i]) + HexDigitValue(digits[i + 1])

\* The six digits of a colour given with or without its '#'.
SixDigits(hex) == IF hex[1] = "#" THEN Tail(hex) ELSE hex

\* The channel the specification expects: moved by the amount and clamped to
\* 0 below 1 and to 255 from 255 on.
ExpectedChannel(x) == IF x < 1 THEN 0 ELSE IF x >= 255 THEN 255 ELSE x

\* C8: for a six-digit colour, with or without '#', and a percent of 0..100,
\* darkenColor (lightenColor) returns '#' and exactly six lowercase
\* hexadecimal digits whose three channels are the input channels minus
\* (plus) round(2.55 * percent), clamped to 0 below 1 and to 255 from 255 on;
\* black darkens to #000000 and white lightens to #ffffff.
C8_DarkenLighten ==
    colorResult # <<>> =>
        LET call == colorCall[1]
            in6 == SixDigits(call.hex)
            out == colorResult[1]
            amt == RoundedAmount(call.percent)
            delta == IF call.op = "darken" THEN 0 - amt ELSE amt
        IN  /\ Len(out) = 7
            /\ out[1] = "#"
            /\ \A i \in 2..7 : \E d \in 1..16 : out[i] = LowerHexDigits[d]
            /\ \A c \in 0..2 :
                  ChannelAt(Tail(out), 2 * c + 1) =
                      ExpectedChannel(ChannelAt(in6, 2 * c + 1) + delta)
            /\ (call.op = "darken" /\ \A i \in 1..6 : in6[i] = "0")
                  => out = <<"#", "0", "0", "0", "0", "0", "0">>
            /\ (call.op = "lighten" /\ \A i \in 1..6 : in6[i] = "f")
                  => out = <<"#", "f", "f", "f", "f", "f", "f">>

\* C8's case: a colour given without '#' was darkened by 20 percent, with one
\* channel clamped to 0, one landing on 0 exactly and one left in range.
C8_Witness ==
    /\ colorResult # <<>>
    /\ colorCall[1].op = "darken"
    /\ colorCall[1].percent = 20
    /\ colorCall[1].hex = <<"0", "0", "3", "3", "C", "c">>
    /\ colorResult[1] = <<"#", "0", "0", "0", "0", "9", "9">>

---------------------------------------------------------------------------
(* The parser's inputs: texts of up to MaxLines lines drawn from LineChoices; *)
(* texts that open with a metadata block (a delimiter line, up to            *)
(* MaxMetaLines lines of MetaLineChoices, a delimiter line and up to         *)
(* MaxBodyLines lines of BodyLineChoices); and texts made of a header line,  *)
(* up to MaxBlankLines blank lines and up to MaxItems list lines.            *)

MaxLines == 3
MaxMetaLines == 2
MaxBodyLines == 3
MaxBlankLines == 2
MaxItems == 2

DelimiterLine == <<"-", "-", "-">>

HeaderLineChoices == { <<"#", " ", "H">>, <<"#", "#", "T">> }

BlankLineChoices == { <<>>, <<" ">> }

ListLineChoices == { <<"-", " ", "a">>, <<"*", " ", "c">>, <<"1", ".", " ", "b">> }

LineChoices ==
    { DelimiterLine, <<"-", "x">>, <<"k", ":", " ", "v">>, <<":", "v">> }
    \cup HeaderLineChoices \cup BlankLineChoices \cup ListLineChoices

MetaLineChoices ==
    { <<>>,
      <<"k", ":", " ", "v", ":", "w">>,
      <<":", "v">> }

BodyLineChoices ==
    { DelimiterLine,
      <<>>,
      <<"k", ":", " ", "v">>,
      <<"-", " ", "a">> }

\* The sequences of 0..n elements of S.
SeqsUpTo(S, n) == UNION {[1..k -> S] : k \in 0..n}

ParserInputs ==
    {JoinLines(ls) : ls \in SeqsUpTo(LineChoices, MaxLines) \ {<<>>}}
    \cup
    {JoinLines(<<DelimiterLine>> \o meta \o <<DelimiterLine>> \o body) :
        meta \in SeqsUpTo(MetaLineChoices, MaxMetaLines) \ {<<>>},
        body \in SeqsUpTo(BodyLineChoices, MaxBodyLines)}
    \cup
    {JoinLines(<<header>> \o blanks \o items) :
        header \in HeaderLineChoices,
        blanks \in SeqsUpTo(BlankLineChoices, MaxBlankLines),
        items \in SeqsUpTo(ListLineChoices, MaxItems) \ {<<>>}}

---------------------------------------------------------------------------
(* The parser as a state machine: a text is handed to parse, parse returns. *)

InitParser ==
    /\ markdown \in ParserInputs
    /\ parsed = <<>>
    /\ ColorIdle
    /\ RegistryIdle
    /\ ManagerIdle
    /\ ConverterIdle
    /\ WebIdle

\* const result = parser.parse(markdown)
Parse ==
    /\ parsed = <<>>
    /\ parsed' = <<parse(markdown)>>
    /\ UNCHANGED <<markdown, colorVars, fsVars, registryVars, managerVars, converterVars, webVars>>

NextParser == Parse

SpecParser == InitParser /\ [][NextParser]_vars

---------------------------------------------------------------------------
(* Properties of the parser.                                               *)

\* The lines of the input, and what the specification says about them.
InputLines == SplitLines(markdown)

\* A delimiter line: three dashes, with nothing but blanks after them.
IsDelimiter(line) ==
    /\ StartsWith(line, DelimiterLine)
    /\ \A i \in 4..Len(line) : line[i] \in Whitespace

IsBlankText(text) == \A i \in 1..Len(text) : text[i] \in Whitespace

\* The input has the form of a metadata block followed by a body: a delimiter
\* line, one or more lines, a closing delimiter line, a line break and the
\* body text.
ClosingLine == CHOOSE c \in 3..Len(InputLines) :
                   /\ IsDelimiter(InputLines[c])
                   /\ \A j \in 3..(c - 1) : ~IsDelimiter(InputLines[j])

HasBlockAndBody ==
    /\ Len(InputLines) >= 4
    /\ IsDelimiter(InputLines[1])
    /\ ~IsDelimiter(InputLines[2])
    /\ \E c \in 3..(Len(InputLines) - 1) : IsDelimiter(InputLines[c])
    /\ ClosingLine < Len(InputLines)

EnclosedLines == SubSeq(InputLines, 2, ClosingLine - 1)

BodyText == JoinLines(SubSeq(InputLines, ClosingLine + 1, Len(InputLines)))

\* The mapping the specification describes: each line that has a colon is
\* split at its first colon into a trimmed key and a trimmed value.
RECURSIVE SplitAtFirstColon(_, _)
SplitAtFirstColon(metadata, lines) ==
    IF Len(lines) = 0 THEN metadata
    ELSE LET line == lines[1]
             colon == IndexOf(line, ":")
         IN  SplitAtFirstColon(
                 IF colon = -1 THEN metadata
                 ELSE MetadataSet(metadata, Trim(SubSeq(line, 1, colon)),
                                  Trim(SubSeq(line, colon + 2, Len(line)))),
                 Tail(lines))

\* The input has no metadata block: it does not open with a delimiter line
\* that a later delimiter line closes.
NoMetadataBlock ==
    ~(/\ IsDelimiter(InputLines[1])
      /\ \E j \in 2..Len(InputLines) : IsDelimiter(InputLines[j]))

\* C1: for an input made of a delimiter line, one or more lines, a closing
\* delimiter line and a body B, parse returns the metadata obtained by
\* splitting each enclosed line at its first colon (lines without a colon
\* contribute nothing) and the sections of B alone.
C1_BlockThenBody ==
    (parsed # <<>> /\ HasBlockAndBody) =>
        /\ parsed[1].metadata = SplitAtFirstColon(EmptyMetadata, EnclosedLines)
        /\ parsed[1].sections = parseSections(BodyText)

\* C2: a body of one level-n header line, any number of blank lines and then
\* k >= 1 list-marker lines (a marker is "- ", "* " or digits and a period)
\* parses to exactly a header section of level n with the heading text, still
\* of kind header, followed by one list section with the k item texts in order.
IsMarkerLine(line) ==
    \/ Len(line) >= 2 /\ line[1] \in {"-", "*"} /\ line[2] = " "
    \/ \E d \in 1..(Len(line) - 1) :
          /\ \A i \in 1..d : line[i] \in Digits
          /\ line[d + 1] = "."

\* The text of a marker line after its marker and the blanks that follow it.
ItemTextOf(line) ==
    LET marker == IF line[1] \in {"-", "*"} THEN 1
                  ELSE 1 + CHOOSE d \in 1..(Len(line) - 1) :
                               /\ \A i \in 1..d : line[i] \in Digits
                               /\ line[d + 1] = "."
        rest == SubSeq(line, marker + 1, Len(line))
    IN  SubSeq(rest, LeadingRun(rest, Whitespace) + 1, Len(rest))

HashCount(line) == Cardinality({i \in 1..Len(line) : \A j \in 1..i : line[j] = "#"})

HeadingTextOf(line) ==
    LET rest == SubSeq(line, HashCount(line) + 1, Len(line))
    IN  SubSeq(rest, LeadingRun(rest, Whitespace) + 1, Len(rest))

\* The index of the first marker line of a header-blanks-list input, or 0.
FirstMarker ==
    IF \E f \in 2..Len(InputLines) :
          /\ \A j \in 2..(f - 1) : IsBlankText(InputLines[j])
          /\ \A j \in f..Len(InputLines) : IsMarkerLine(InputLines[j])
    THEN CHOOSE f \in 2..Len(InputLines) :
          /\ \A j \in 2..(f - 1) : IsBlankText(InputLines[j])
          /\ \A j \in f..Len(InputLines) : IsMarkerLine(InputLines[j])
    ELSE 0

IsHeaderThenList == Len(InputLines[1]) > 0 /\ InputLines[1][1] = "#" /\ FirstMarker > 0

C2_HeaderThenList ==
    (parsed # <<>> /\ IsHeaderThenList) =>
        LET sections == parsed[1].sections
        IN  /\ Len(sections) = 2
            /\ sections[1].type = "header"
            /\ sections[1].level = HashCount(InputLines[1])
            /\ sections[1].content = HeadingTextOf(InputLines[1])
            /\ sections[2].type = "list"
            /\ sections[2].items =
                  [i \in 1..(Len(InputLines) - FirstMarker + 1) |->
                      ItemTextOf(InputLines[FirstMarker + i - 1])]

\* C2's case: a level-2 header, a blank line and two list lines were parsed.
C2_Witness ==
    /\ parsed # <<>>
    /\ IsHeaderThenList
    /\ HashCount(InputLines[1]) = 2
    /\ FirstMarker = 3
    /\ Len(InputLines) = 4
    /\ Len(parsed[1].sections) = 2

\* C3: an input with no metadata block parses to an empty metadata mapping,
\* and to an empty section sequence exactly when the input is empty or
\* whitespace-only.
C3_NoBlock ==
    (parsed # <<>> /\ NoMetadataBlock) =>
        /\ parsed[1].metadata = EmptyMetadata
        /\ (parsed[1].sections = <<>>) <=> IsBlankText(markdown)

\* C3's case: a whitespace-only input of several lines parsed to no section.
C3_Witness ==
    /\ parsed # <<>>
    /\ NoMetadataBlock
    /\ Len(InputLines) > 2
    /\ \E i \in 1..Len(markdown) : markdown[i] = " "
    /\ IsBlankText(markdown)
    /\ parsed[1].sections = <<>>

\* C4 as stated: the section sequence is empty exactly when the input is
\* all-blank, also for an input that is a metadata block with a blank body.
C4_NonEmptyForNonBlankInput ==
    parsed # <<>> => ((parsed[1].sections = <<>>) <=> IsBlankText(markdown))

\* C4 as amended: the section sequence is empty exactly when the body content
\* that header extraction leaves is all-blank; a metadata block followed by
\* an empty or all-blank body therefore parses to no section.
C4_NonEmptyForNonBlankBody ==
    parsed # <<>> =>
        ((parsed[1].sections = <<>>) <=> IsBlankText(extractFrontMatter(markdown).content))

\* C4's case: a metadata block with a key and a blank body was parsed.
C4_Witness ==
    /\ parsed # <<>>
    /\ HasBlockAndBody
    /\ IsBlankText(BodyText)
    /\ parsed[1].metadata # EmptyMetadata
    /\ parsed[1].sections = <<>>

\* C5: parse returns for every input, and for an input that does not open
\* with a delimiter line closed by a later delimiter line it returns an empty
\* metadata mapping and the sections of the entire input.
C5_MalformedIsBody ==
    (parsed # <<>> /\ NoMetadataBlock) =>
        /\ parsed[1].metadata = EmptyMetadata
        /\ parsed[1].sections = parseSections(markdown)

\* C5's case: an opening delimiter line, a key: value line and no closing
\* delimiter were parsed as body.
C5_Witness ==
    /\ parsed # <<>>
    /\ NoMetadataBlock
    /\ IsDelimiter(InputLines[1])
    /\ \E j \in 2..Len(InputLines) : IndexOf(InputLines[j], ":") > 0
    /\ parsed[1].metadata = EmptyMetadata
    /\ parsed[1].sections # <<>>

\* The sections parse returned.
Sections == parsed[1].sections

\* C21: every list section of the sequence parse returns has at least one
\* item; no empty list section is ever appended.
C21_NoEmptyList ==
    parsed # <<>> =>
        \A i \in 1..Len(Sections) :
            Sections[i].type = "list" => Len(Sections[i].items) >= 1

\* C21's case: two lists with a paragraph between them were parsed.
C21_Witness ==
    /\ parsed # <<>>
    /\ Len(Sections) = 3
    /\ Sections[1].type = "list"
    /\ Len(Sections[1].items) = 1
    /\ Sections[2].type = "paragraph"
    /\ Sections[3].type = "list"

\* A line that is neither blank nor a header line nor a list-marker line.
IsTextLine(line) ==
    /\ ~IsBlankText(line)
    /\ line[1] # "#"
    /\ ~IsMarkerLine(line)

\* The non-blank lines among the given ones, in order.
NonBlankLines(lines) == SelectSeq(lines, LAMBDA line : ~IsBlankText(line))

\* The input is a header line followed by blank and text lines only, at
\* least one of them a text line.
IsHeaderThenText ==
    /\ Len(InputLines[1]) > 0
    /\ InputLines[1][1] = "#"
    /\ \A j \in 2..Len(InputLines) :
           IsBlankText(InputLines[j]) \/ IsTextLine(InputLines[j])
    /\ \E j \in 2..Len(InputLines) : IsTextLine(InputLines[j])

\* C22: when the open section is a header and the next non-blank line is
\* neither a header line nor a list-marker line, the section becomes a
\* paragraph in place and the line is appended to its content after a line
\* break: a header line followed by text lines parses to one paragraph
\* section that begins with the heading text, and to no header section.
C22_HeaderBecomesParagraph ==
    (parsed # <<>> /\ IsHeaderThenText) =>
        /\ Len(Sections) = 1
        /\ Sections[1].type = "paragraph"
        /\ Sections[1].content =
              JoinLines(<<HeadingTextOf(InputLines[1])>>
                        \o NonBlankLines(Tail(InputLines)))

\* C22's case: a header line, a blank line and a text line were parsed.
C22_Witness ==
    /\ parsed # <<>>
    /\ IsHeaderThenText
    /\ Len(InputLines) = 3
    /\ IsBlankText(InputLines[2])
    /\ Sections = <<[ParagraphSection(HeadingTextOf(InputLines[1]) \o <<"\n">> \o InputLines[3])
                        EXCEPT !.level = HashCount(InputLines[1])]>>

\* The items of the list sections, in the order of the sections.
RECURSIVE ItemsOf(_)
ItemsOf(sections) ==
    IF sections = <<>> THEN <<>>
    ELSE (IF Head(sections).type = "list" THEN Head(sections).items ELSE <<>>)
         \o ItemsOf(Tail(sections))

\* The marker test as C23 words it: the line begins with '-', with '*' or
\* with digits and a period.
BeginsWithMarker(line) ==
    \/ Len(line) >= 1 /\ line[1] \in {"-", "*"}
    \/ \E d \in 1..(Len(line) - 1) :
          /\ \A i \in 1..d : line[i] \in Digits
          /\ line[d + 1] = "."

\* The item texts of the lines, in order.
ItemTexts(lines) == [i \in 1..Len(lines) |-> ItemTextOf(lines[i])]

\* Line i is the first non-blank line, or the non-blank line before it is
\* not a list line.
OpensList(IsItem(_), i) ==
    \A j \in 1..(i - 1) :
        (~IsBlankText(InputLines[j])
            /\ \A k \in (j + 1)..(i - 1) : IsBlankText(InputLines[k]))
        => ~IsItem(InputLines[j])

\* With the list lines being those IsItem holds of: the items of the list
\* sections are the texts of the list lines, markers stripped, in order, and
\* there is one list section for every list line that does not follow
\* another.
ListsFollow(IsItem(_)) ==
    /\ ItemsOf(Sections) = ItemTexts(SelectSeq(InputLines, IsItem))
    /\ Cardinality({i \in 1..Len(Sections) : Sections[i].type = "list"})
         = Cardinality({i \in 1..Len(InputLines) :
                           IsItem(InputLines[i]) /\ OpensList(IsItem, i)})

\* C23 as stated: every body line that begins with '-', '*' or digits and a
\* period is a list item.
C23_MarkerCharacterIsItem ==
    (parsed # <<>> /\ NoMetadataBlock) => ListsFollow(BeginsWithMarker)

\* C23: every body line that begins with '- ', with '* ' or with digits and
\* a period is a list item: when the open section is not a list it is closed
\* and a list section is opened, and the text of the line after its marker
\* is the last item of the open list section. A line that begins with '-' or
\* '*' and no blank after it is not a list item.
C23_MarkerAndBlankIsItem ==
    (parsed # <<>> /\ NoMetadataBlock) => ListsFollow(IsMarkerLine)

\* C23's case: a text line, two list lines, a line that begins with '-' and
\* no blank.
C23_Witness ==
    /\ parsed # <<>>
    /\ InputLines = <<<<"-", "x">>, <<"-", " ", "a">>, <<"1", ".", " ", "b">>>>
    /\ Len(Sections) = 2
    /\ Sections[2].items = <<<<"a">>, <<"b">>>>

\* C24: blank lines neither open nor close a section: a body parses to the
\* sections of the same body without its blank lines, so that bodies which
\* differ in blank lines only parse alike, and two text lines with only
\* blank lines between them are one paragraph section.
C24_BlankLinesChangeNothing ==
    (parsed # <<>> /\ NoMetadataBlock) =>
        Sections = parseSections(JoinLines(NonBlankLines(InputLines)))

\* C24's case: two text lines with a blank line between them.
C24_Witness ==
    /\ parsed # <<>>
    /\ InputLines = <<<<"k", ":", " ", "v">>, <<" ">>, <<":", "v">>>>
    /\ Sections = <<ParagraphSection(<<"k", ":", " ", "v", "\n", ":", "v">>)>>

IsHeaderLine(line) == Len(line) > 0 /\ line[1] = "#"

\* Line i opens a section: a header line; a list line that does not follow
\* a list line; a text line that is the first non-blank line or follows a
\* list line.
OpensSection(i) ==
    LET line == InputLines[i]
    IN  \/ IsHeaderLine(line)
        \/ IsMarkerLine(line) /\ OpensList(IsMarkerLine, i)
        \/ /\ IsTextLine(line)
           /\ \A j \in 1..(i - 1) :
                  (~IsBlankText(InputLines[j])
                      /\ \A k \in (j + 1)..(i - 1) : IsBlankText(InputLines[k]))
                  => (IsMarkerLine(InputLines[j]) /\ ~IsHeaderLine(InputLines[j]))

\* The lines that open a section, from line i on, in order.
RECURSIVE OpenersFrom(_)
OpenersFrom(i) ==
    IF i > Len(InputLines) THEN <<>>
    ELSE (IF OpensSection(i) THEN <<InputLines[i]>> ELSE <<>>) \o OpenersFrom(i + 1)

\* The section is the one the line opened: for a header line, a section of
\* the level of its '#' characters whose content is, or begins with, the
\* rest of the line; for a list line a list section; for a text line a
\* paragraph section that is, or begins with, the line.
OpenedBy(section, line) ==
    IF IsHeaderLine(line)
    THEN /\ section.level = HashCount(line)
         /\ \/ section.type = "header" /\ section.content = HeadingTextOf(line)
            \/ /\ section.type = "paragraph"
               /\ StartsWith(section.content, HeadingTextOf(line) \o <<"\n">>)
    ELSE IF IsMarkerLine(line)
    THEN section.type = "list" /\ section.items[1] = ItemTextOf(line)
    ELSE /\ section.type = "paragraph"
         /\ section.content = line \/ StartsWith(section.content, line \o <<"\n">>)

\* C25: every line that begins with '#' opens a header section of the level
\* of its leading '#' characters, with the rest of the line as content; the
\* open section is appended before it, and the last open section at the end
\* of the input: the sections returned are those the lines opened, one for
\* each, in the order of the lines.
C25_SectionsInOrderOpened ==
    (parsed # <<>> /\ NoMetadataBlock) =>
        /\ Len(Sections) = Len(OpenersFrom(1))
        /\ \A i \in 1..Len(Sections) : OpenedBy(Sections[i], OpenersFrom(1)[i])

\* C25's case: a list, a header of two '#' and a header of one '#'.
C25_Witness ==
    /\ parsed # <<>>
    /\ InputLines = <<<<"-", " ", "a">>, <<"#", "#", "T">>, <<"#", " ", "H">>>>
    /\ Sections = <<[ListSection EXCEPT !.items = <<<<"a">>>>],
                    HeaderSection(<<"T">>, 2), HeaderSection(<<"H">>, 1)>>

\* The input is a delimiter line, key: value lines and a closing delimiter
\* line that is its last line, with or without a line break after it.
IsBlockOnly ==
    /\ Len(InputLines) >= 3
    /\ InputLines[1] = DelimiterLine
    /\ \E c \in 3..Len(InputLines) :
          /\ InputLines[c] = DelimiterLine
          /\ \A j \in 2..(c - 1) : IndexOf(InputLines[j], ":") > 0
          /\ c = Len(InputLines) \/ (c = Len(InputLines) - 1 /\ InputLines[c + 1] = <<>>)

\* The lines between the two delimiter lines of such an input.
BlockLines ==
    SubSeq(InputLines, 2,
           (CHOOSE c \in 3..Len(InputLines) : InputLines[c] = DelimiterLine) - 1)

\* C26: for an input that is a delimiter line, key: value lines and a
\* closing delimiter line with no body after it, with or without a final
\* line break, the enclosed lines are the metadata and there is no section.
C26_BlockWithoutBody ==
    (parsed # <<>> /\ IsBlockOnly) =>
        /\ parsed[1].metadata = SplitAtFirstColon(EmptyMetadata, BlockLines)
        /\ Sections = <<>>

---------------------------------------------------------------------------
(* CSSThemeManager: style sources and their colour customisation.          *)
(*                                                                         *)
(* A style source is a sequence of tokens: the custom-property names are   *)
(* built from the tokens "--theme-primary", "-dark", "-light",             *)
(* "--theme-secondary" and "--theme-accent"; every other token is one      *)
(* character. A file name is a sequence of tokens in the same way, with    *)
(* "theme-" and ".css" as tokens. No token is a part of another one, so    *)
(* includes, startsWith, endsWith, replace and the regular expressions of  *)
(* the source act on tokens as they act on the characters.                 *)

VarPrimary == <<"--theme-primary">>

VarPrimaryDark == <<"--theme-primary", "-dark">>

VarPrimaryLight == <<"--theme-primary", "-light">>

VarSecondary == <<"--theme-secondary">>

VarAccent == <<"--theme-accent">>

\* Whether text has part at position i.
HasAt(text, part, i) ==
    /\ i >= 1
    /\ i + Len(part) - 1 <= Len(text)
    /\ SubSeq(text, i, i + Len(part) - 1) = part

\* text.includes(part)
Includes(text, part) == \E i \in 1..Len(text) : HasAt(text, part, i)

\* text.replace(part, ''): the first occurrence of part removed.
RemoveFirst(text, part) ==
    IF Includes(text, part)
    THEN LET i == CHOOSE k \in 1..Len(text) :
                      /\ HasAt(text, part, k)
                      /\ \A m \in 1..(k - 1) : ~HasAt(text, part, m)
         IN  SubSeq(text, 1, i - 1) \o SubSeq(text, i + Len(part), Len(text))
    ELSE text

\* Whether /<name>:\s*[^;]+;/ matches at position i: the name, a colon, at
\* least one character that is not ';' (the blanks of \s* are such
\* characters too) and then a ';'.
DeclarationAt(css, name, i) ==
    LET colon == i + Len(name)
    IN  /\ HasAt(css, name, i)
        /\ colon + 1 <= Len(css)
        /\ css[colon] = ":"
        /\ css[colon + 1] # ";"
        /\ \E j \in (colon + 2)..Len(css) : css[j] = ";"

\* The position of the ';' that ends the match at i: [^;]+ runs to the first
\* ';' after the colon.
DeclarationEnd(css, name, i) ==
    LET colon == i + Len(name)
    IN  CHOOSE j \in (colon + 2)..Len(css) :
            /\ css[j] = ";"
            /\ \A m \in (colon + 2)..(j - 1) : css[m] # ";"

\* Where the regular expression, which has no g flag, matches: the leftmost
\* position, 0 for no match.
FirstDeclaration(css, name) ==
    IF \E i \in 1..Len(css) : DeclarationAt(css, name, i)
    THEN CHOOSE i \in 1..Len(css) :
             /\ DeclarationAt(css, name, i)
             /\ \A m \in 1..(i - 1) : ~DeclarationAt(css, name, m)
    ELSE 0

\* css.replace(/<name>:\s*[^;]+;/, `<name>: ${value};`)
ReplaceDeclaration(css, name, value) ==
    LET i == FirstDeclaration(css, name)
    IN  IF i = 0 THEN css
        ELSE SubSeq(css, 1, i - 1)
                 \o name \o <<":", " ">> \o value \o <<";">>
                 \o SubSeq(css, DeclarationEnd(css, name, i) + 1, Len(css))

\* A mutant of ExtractDeclaration: the group is not trimmed.
ExtractDeclarationUntrimmed(css, name) ==
    LET i == FirstDeclaration(css, name)
    IN  IF i = 0 THEN <<>>
        ELSE LET between == SubSeq(css, i + Len(name) + 1,
                                   DeclarationEnd(css, name, i) - 1)
                 blanks == LeadingRun(between, Whitespace)
                 skipped == IF blanks = Len(between) THEN blanks - 1 ELSE blanks
             IN  <<SubSeq(between, skipped + 1, Len(between))>>

\* css.match(/<name>:\s*([^;]+);/) and match[1].trim(); <<>> is undefined.
\* The greedy \s* gives its last blank back when nothing else is left for
\* the group.
ExtractDeclaration(css, name) ==
    LET i == FirstDeclaration(css, name)
    IN  IF i = 0 THEN <<>>
        ELSE LET between == SubSeq(css, i + Len(name) + 1,
                                   DeclarationEnd(css, name, i) - 1)
                 blanks == LeadingRun(between, Whitespace)
                 skipped == IF blanks = Len(between) THEN blanks - 1 ELSE blanks
             IN  <<Trim(SubSeq(between, skipped + 1, Len(between)))>>

\* A ThemeCustomization: each colour is <<>> when the field is absent and
\* <<text>> when it is given; an empty text is as falsy as an absent field.
IsGiven(field) == field # <<>> /\ field[1] # <<>>

\* The percentage by which the two derived primary colours are moved.
DerivedPercent == 20

applyCustomization(cssContent, customization) ==
    LET p == customization.primaryColor
        afterPrimary ==
            IF IsGiven(p)
            THEN ReplaceDeclaration(
                   ReplaceDeclaration(
                     ReplaceDeclaration(cssContent, VarPrimary, p[1]),
                     VarPrimaryDark, darkenColor(p[1], DerivedPercent)),
                   VarPrimaryLight, lightenColor(p[1], DerivedPercent))
            ELSE cssContent
        afterSecondary ==
            IF IsGiven(customization.secondaryColor)
            THEN ReplaceDeclaration(afterPrimary, VarSecondary,
                                    customization.secondaryColor[1])
            ELSE afterPrimary
    IN  IF IsGiven(customization.accentColor)
        THEN ReplaceDeclaration(afterSecondary, VarAccent,
                                customization.accentColor[1])
        ELSE afterSecondary

\* A mutant of CustomizedCSS: the customizable flag is not looked at.
CustomizedCSSAlways(theme, cssContent, customization) ==
    IF customization # <<>>
    THEN applyCustomization(cssContent, customization[1])
    ELSE cssContent

\* The end of getThemeCSS: what it returns for the content it has read. The
\* customization argument is <<>> when the caller gave none.
CustomizedCSS(theme, cssContent, customization) ==
    IF customization # <<>> /\ theme.customizable
    THEN applyCustomization(cssContent, customization[1])
    ELSE cssContent

---------------------------------------------------------------------------
(* CSSThemeManager: the themes directory and the discovery of its themes.  *)

FilePrefix == <<"theme-">>

FileSuffix == <<".css">>

\* file.startsWith('theme-') && file.endsWith('.css')
IsThemeFile(file) ==
    /\ HasAt(file, FilePrefix, 1)
    /\ HasAt(file, FileSuffix, Len(file) - Len(FileSuffix) + 1)

\* file.replace('theme-', '').replace('.css', '')
ThemeNameOf(file) == RemoveFirst(RemoveFirst(file, FilePrefix), FileSuffix)

\* The file names that can be in the themes directory, in the order in which
\* readdir lists them.
FileNames ==
    << <<"not-a-theme", ".css">>,
       <<"theme-", "a", ".css">>,
       <<"theme-", "a", ".css", ".bak">>,
       <<"theme-", "ats", ".css">>,
       <<"theme-", "b", ".css">>,
       <<"theme-", "classic", ".css">>,
       <<"theme-", "invalid">>,
       <<"theme-", "minimal", ".css">>,
       <<"theme-", "modern", ".css">>,
       <<"theme-", "x", ".css", "y", ".css">> >>

FileNameSet == {FileNames[i] : i \in 1..Len(FileNames)}

NoFiles == [f \in FileNameSet |-> <<>>]

\* fs.readFile(cssPath): <<>> when the read fails, <<content>> otherwise.
ReadFile(file) == IF dirExists THEN files[file] ELSE <<>>

\* files.filter(...) over what fs.readdir lists.
RECURSIVE ThemeFilesFrom(_)
ThemeFilesFrom(i) ==
    IF i > Len(FileNames) THEN <<>>
    ELSE IF files[FileNames[i]] # <<>> /\ IsThemeFile(FileNames[i])
         THEN <<FileNames[i]>> \o ThemeFilesFrom(i + 1)
         ELSE ThemeFilesFrom(i + 1)

\* The Map of descriptors as a function from the theme names it has.
NoThemes == [n \in {} |-> <<>>]

\* this.themes.set(name, info)
MapSet(map, name, info) ==
    [n \in (DOMAIN map) \cup {name} |-> IF n = name THEN info ELSE map[n]]

\* this.themes.get(name): <<>> for undefined.
MapGet(map, name) == IF name \in DOMAIN map THEN <<map[name]>> ELSE <<>>

\* The descriptor of discoverThemes. The display name, which is computed from
\* the name alone and read by nothing else, is left out; the path is the
\* file name within the themes directory.
ThemeInfo(file, customizable, primaryColor, secondaryColor, accentColor) ==
    [name |-> ThemeNameOf(file),
     cssPath |-> file,
     customizable |-> customizable,
     primaryColor |-> primaryColor,
     secondaryColor |-> secondaryColor,
     accentColor |-> accentColor]

\* The most initialize()/refreshThemes() calls in progress at once.
MaxCalls == 2

Calls == 1..MaxCalls

\* A call that is not in progress. A call in progress has its kind, the await
\* it is suspended at, the theme files it still has to look at (the current
\* one first) and what it has found out about the current one. The last
\* three fields record, for a refreshThemes() call, the theme names there
\* were before it cleared the map, whether the directory is as it was when
\* the call and the calls in progress with it began, and whether no other
\* call was in progress with it.
IdleCall ==
    [kind |-> "none", pc |-> "idle", queue |-> <<>>,
     customizable |-> FALSE, primaryColor |-> <<>>, secondaryColor |-> <<>>,
     before |-> {}, stable |-> TRUE, alone |-> TRUE]

AllIdle == \A c \in Calls : procs[c].pc = "idle"

\* A call that begins takes the lowest slot that is free.
IsFreeSlot(p) ==
    /\ procs[p].pc = "idle"
    /\ \A q \in Calls : q < p => procs[q].pc # "idle"

\* The calls as they are when call p begins: p is suspended at pathExists,
\* no call in progress is alone any more, and p has the directory as it was
\* when the calls in progress began if they have.
Begun(p, kind, before) ==
    [c \in Calls |->
        IF c = p
        THEN [IdleCall EXCEPT !.kind = kind, !.pc = "pathExists",
                              !.before = before, !.alone = AllIdle,
                              !.stable = \A q \in Calls : procs[q].stable]
        ELSE IF procs[c].pc = "idle" THEN procs[c]
             ELSE [procs[c] EXCEPT !.alone = FALSE]]

\* The themes of the theme files that are in the directory.
ThemeFileNames ==
    IF dirExists
    THEN {ThemeNameOf(ThemeFilesFrom(1)[i]) : i \in 1..Len(ThemeFilesFrom(1))}
    ELSE {}

\* What a call leaves in lastRefresh when it returns with the map as given:
\* for a refreshThemes() call, the themes of the map and of the directory as
\* it returns.
Returned(p, map) ==
    IF procs[p].kind = "refresh"
    THEN <<[names |-> DOMAIN map,
            fileNames |-> ThemeFileNames,
            stable |-> procs[p].stable,
            alone |-> procs[p].alone]>>
    ELSE lastRefresh

\* async initialize(): discoverThemes() runs up to its first await.
InitializeStart(p) ==
    /\ IsFreeSlot(p)
    /\ procs' = Begun(p, "initialize", {})
    /\ UNCHANGED <<themes, cssCall, cssResult, lastRefresh>>
    /\ UNCHANGED <<parserVars, colorVars, fsVars, managerVars, converterVars, webVars>>

\* async refreshThemes(): this.themes.clear(), then discoverThemes() up to
\* its first await.
RefreshStart(p) ==
    /\ IsFreeSlot(p)
    /\ themes' = NoThemes
    /\ procs' = Begun(p, "refresh", DOMAIN themes)
    /\ UNCHANGED <<cssCall, cssResult, lastRefresh>>
    /\ UNCHANGED <<parserVars, colorVars, fsVars, managerVars, converterVars, webVars>>

\* await fs.pathExists(this.themesDir) resolves: return when there is no
\* directory, go on to readdir otherwise.
PathExistsDone(p) ==
    /\ procs[p].pc = "pathExists"
    /\ IF dirExists
       THEN /\ procs' = [procs EXCEPT ![p].pc = "readdir"]
            /\ UNCHANGED lastRefresh
       ELSE /\ procs' = [procs EXCEPT ![p] = IdleCall]
            /\ lastRefresh' = Returned(p, themes)
    /\ UNCHANGED <<themes, cssCall, cssResult>>
    /\ UNCHANGED <<parserVars, colorVars, fsVars, managerVars, converterVars, webVars>>

\* await fs.readdir(this.themesDir) resolves or rejects: the rejection is
\* caught and the call returns; with no theme file the loop is empty and the
\* call returns; otherwise the loop begins with the first theme file.
ReaddirDone(p) ==
    /\ procs[p].pc = "readdir"
    /\ IF dirExists /\ ThemeFilesFrom(1) # <<>>
       THEN /\ procs' = [procs EXCEPT ![p].pc = "customizable",
                                      ![p].queue = ThemeFilesFrom(1)]
            /\ UNCHANGED lastRefresh
       ELSE /\ procs' = [procs EXCEPT ![p] = IdleCall]
            /\ lastRefresh' = Returned(p, themes)
    /\ UNCHANGED <<themes, cssCall, cssResult>>
    /\ UNCHANGED <<parserVars, colorVars, fsVars, managerVars, converterVars, webVars>>

\* The calls and the map after this.themes.set for the current file of call
\* p: the loop goes on with the next file, or the call returns.
AfterSet(p, info) ==
    LET map == MapSet(themes, info.name, info)
        rest == Tail(procs[p].queue)
    IN  /\ themes' = map
        /\ IF rest # <<>>
           THEN /\ procs' = [procs EXCEPT ![p].pc = "customizable",
                                          ![p].queue = rest,
                                          ![p].customizable = FALSE,
                                          ![p].primaryColor = <<>>,
                                          ![p].secondaryColor = <<>>]
                /\ UNCHANGED lastRefresh
           ELSE /\ procs' = [procs EXCEPT ![p] = IdleCall]
                /\ lastRefresh' = Returned(p, map)

\* await this.isThemeCustomizable(cssPath) resolves: a failed read counts as
\* not customizable; for a theme that is not customizable the three colours
\* are undefined and the descriptor is set at once.
CustomizableDone(p) ==
    /\ procs[p].pc = "customizable"
    /\ LET file == Head(procs[p].queue)
           content == ReadFile(file)
       IN  IF content # <<>> /\ Includes(content[1], VarPrimary)
           THEN /\ procs' = [procs EXCEPT ![p].pc = "primary",
                                          ![p].customizable = TRUE]
                /\ UNCHANGED <<themes, lastRefresh>>
           ELSE AfterSet(p, ThemeInfo(file, FALSE, <<>>, <<>>, <<>>))
    /\ UNCHANGED <<cssCall, cssResult>>
    /\ UNCHANGED <<parserVars, colorVars, fsVars, managerVars, converterVars, webVars>>

\* What extractPrimaryColor, extractSecondaryColor and extractAccentColor
\* return: undefined for a failed read or no match.
ExtractColor(file, name) ==
    IF ReadFile(file) = <<>> THEN <<>>
    ELSE ExtractDeclaration(ReadFile(file)[1], name)

\* await this.extractPrimaryColor(cssPath) resolves.
PrimaryDone(p) ==
    /\ procs[p].pc = "primary"
    /\ procs' = [procs EXCEPT
                   ![p].pc = "secondary",
                   ![p].primaryColor = ExtractColor(Head(procs[p].queue), VarPrimary)]
    /\ UNCHANGED <<themes, cssCall, cssResult, lastRefresh>>
    /\ UNCHANGED <<parserVars, colorVars, fsVars, managerVars, converterVars, webVars>>

\* await this.extractSecondaryColor(cssPath) resolves.
SecondaryDone(p) ==
    /\ procs[p].pc = "secondary"
    /\ procs' = [procs EXCEPT
                   ![p].pc = "accent",
                   ![p].secondaryColor = ExtractColor(Head(procs[p].queue), VarSecondary)]
    /\ UNCHANGED <<themes, cssCall, cssResult, lastRefresh>>
    /\ UNCHANGED <<parserVars, colorVars, fsVars, managerVars, converterVars, webVars>>

\* await this.extractAccentColor(cssPath) resolves, and the descriptor is
\* set.
AccentDone(p) ==
    /\ procs[p].pc = "accent"
    /\ LET file == Head(procs[p].queue)
       IN  AfterSet(p, ThemeInfo(file, procs[p].customizable,
                                 procs[p].primaryColor,
                                 procs[p].secondaryColor,
                                 ExtractColor(file, VarAccent)))
    /\ UNCHANGED <<cssCall, cssResult>>
    /\ UNCHANGED <<parserVars, colorVars, fsVars, managerVars, converterVars, webVars>>

\* getAvailableThemes(): Array.from(this.themes.values()), the descriptors in
\* the state the call is made in.
getAvailableThemes == {themes[n] : n \in DOMAIN themes}

\* getThemeInfo(name): this.themes.get(name), <<>> for undefined.
getThemeInfo(name) == MapGet(themes, name)

\* The message of the error getThemeCSS throws: `Theme '${name}' not found`.
NotFoundMessage(name) == <<"Theme '">> \o name \o <<"' not found">>

\* async getThemeCSS(name, customization) up to its await: the lookup, which
\* throws for a name the map does not have.
GetThemeCSSStart(name, customization) ==
    /\ cssCall = <<>>
    /\ IF getThemeInfo(name) = <<>>
       THEN /\ cssResult' = <<[status |-> "not found",
                               message |-> NotFoundMessage(name),
                               name |-> name,
                               customization |-> customization,
                               theme |-> <<>>,
                               content |-> <<>>,
                               css |-> <<>>]>>
            /\ UNCHANGED cssCall
       ELSE /\ cssCall' = <<[name |-> name,
                             customization |-> customization,
                             theme |-> themes[name]]>>
            /\ cssResult' = <<>>
    /\ UNCHANGED <<themes, procs, lastRefresh>>
    /\ UNCHANGED <<parserVars, colorVars, fsVars, managerVars, converterVars, webVars>>

\* await fs.readFile(theme.cssPath) resolves or rejects, and getThemeCSS
\* returns the content, customized for a customizable theme, or rejects.
GetThemeCSSDone ==
    /\ cssCall # <<>>
    /\ LET call == cssCall[1]
           content == ReadFile(call.theme.cssPath)
       IN  cssResult' =
               <<[status |-> IF content = <<>> THEN "read failed" ELSE "ok",
                  message |-> <<>>,
                  name |-> call.name,
                  customization |-> call.customization,
                  theme |-> <<call.theme>>,
                  content |-> content,
                  css |-> IF content = <<>> THEN <<>>
                          ELSE <<CustomizedCSS(call.theme, content[1],
                                               call.customization)>>]>>
    /\ cssCall' = <<>>
    /\ UNCHANGED <<themes, procs, lastRefresh>>
    /\ UNCHANGED <<parserVars, colorVars, fsVars, managerVars, converterVars, webVars>>

---------------------------------------------------------------------------
(* Customisation: one theme file, discovered at start-up, and getThemeCSS  *)
(* calls after that.                                                       *)

SourceColor == <<"#", "3", "3", "6", "6", "9", "9">>

DeclPrimary == VarPrimary \o <<":", " ">> \o SourceColor \o <<";">>

\* A declaration that ends its block: no ';' before the '}'.
DeclPrimaryLast == VarPrimary \o <<":", " ">> \o SourceColor \o <<"}">>

DeclPrimaryDark ==
    VarPrimaryDark \o <<":", " ", "#", "2", "2", "4", "4", "6", "6", ";">>

DeclPrimaryLight ==
    VarPrimaryLight \o <<":", " ", "#", "6", "6", "9", "9", "c", "c", ";">>

DeclSecondary ==
    VarSecondary \o <<":", " ", "#", "8", "0", "8", "0", "8", "0", " ", ";">>

DeclAccent == VarAccent \o <<":", "#", "c", "c", "0", "0", "0", "0", ";">>

UsePrimary == <<"c", ":", "v", "a", "r", "(">> \o VarPrimary \o <<")", ";">>

StatementChoices ==
    {DeclPrimary, DeclPrimaryLast, DeclPrimaryDark, DeclPrimaryLight,
     DeclSecondary, DeclAccent, UsePrimary}

\* The most statements of a style source.
MaxStatements == 3

RECURSIVE Concat(_)
Concat(parts) == IF parts = <<>> THEN <<>> ELSE Head(parts) \o Concat(Tail(parts))

CssSources == {Concat(parts) : parts \in SeqsUpTo(StatementChoices, MaxStatements)}

NewPrimary == <<"#", "c", "c", "6", "6", "0", "0">>

NewSecondary == <<"#", "1", "2", "3", "4", "5", "6">>

NewAccent == <<"#", "a", "b", "c", "d", "e", "f">>

\* The customization argument of getThemeCSS: none, or any combination of the
\* three colours.
CustomizationChoices ==
    {<<>>} \cup
    {<<[primaryColor |-> p, secondaryColor |-> s, accentColor |-> a]>> :
        p \in {<<>>, <<NewPrimary>>},
        s \in {<<>>, <<NewSecondary>>},
        a \in {<<>>, <<NewAccent>>}}

ThemeFileA == <<"theme-", "a", ".css">>

RequestedNames == {<<"a">>, <<"z">>}

InitCustomize ==
    /\ dirExists = TRUE
    /\ files \in {[NoFiles EXCEPT ![ThemeFileA] = <<source>>] : source \in CssSources}
    /\ fsOps = 0
    /\ themes = NoThemes
    /\ procs = [c \in Calls |-> IdleCall]
    /\ cssCall = <<>>
    /\ cssResult = <<>>
    /\ lastRefresh = <<>>
    /\ ParserIdle
    /\ ColorIdle
    /\ ManagerIdle
    /\ ConverterIdle
    /\ WebIdle

\* The one initialize() call of start-up.
Startup == themes = NoThemes /\ InitializeStart(1)

\* A getThemeCSS call made once start-up is over.
Request(name, customization) ==
    /\ themes # NoThemes
    /\ AllIdle
    /\ GetThemeCSSStart(name, customization)

NextCustomize ==
    \/ Startup
    \/ PathExistsDone(1)
    \/ ReaddirDone(1)
    \/ CustomizableDone(1)
    \/ PrimaryDone(1)
    \/ SecondaryDone(1)
    \/ AccentDone(1)
    \/ \E name \in RequestedNames, customization \in CustomizationChoices :
           Request(name, customization)
    \/ GetThemeCSSDone

SpecCustomize == InitCustomize /\ [][NextCustomize]_vars

\* C6: for a theme that is not customizable and any customization, with any
\* combination of primaryColor, secondaryColor and accentColor, getThemeCSS
\* returns what it returns with no customization: the source as read.
C6_StaticThemeUntouched ==
    (/\ cssResult # <<>>
     /\ cssResult[1].status = "ok"
     /\ cssResult[1].customization # <<>>
     /\ ~cssResult[1].theme[1].customizable)
    => /\ cssResult[1].css[1] =
              CustomizedCSS(cssResult[1].theme[1], cssResult[1].content[1], <<>>)
       /\ cssResult[1].css[1] = cssResult[1].content[1]

\* C6's case: a theme that is not customizable, whose source declares
\* --theme-secondary and --theme-accent, was asked for with all three colours.
C6_Witness ==
    /\ cssResult # <<>>
    /\ cssResult[1].status = "ok"
    /\ ~cssResult[1].theme[1].customizable
    /\ cssResult[1].customization # <<>>
    /\ cssResult[1].customization[1].primaryColor = <<NewPrimary>>
    /\ cssResult[1].customization[1].secondaryColor = <<NewSecondary>>
    /\ cssResult[1].customization[1].accentColor = <<NewAccent>>
    /\ cssResult[1].content[1] = DeclSecondary \o DeclAccent
    /\ cssResult[1].css[1] = DeclSecondary \o DeclAccent

\* Where a CSS declaration of the variable begins: the name and its colon.
DeclaredAt(source, name, i) ==
    /\ HasAt(source, name, i)
    /\ i + Len(name) <= Len(source)
    /\ source[i + Len(name)] = ":"

Declares(source, name) == \E i \in 1..Len(source) : DeclaredAt(source, name, i)

\* The first declaration of a variable that the source declares: from its
\* name to the last character before the ';' or '}' that ends it, and where,
\* after the colon and the blanks, its value begins.
FirstDeclared(source, name) ==
    LET from == CHOOSE i \in 1..Len(source) :
                    /\ DeclaredAt(source, name, i)
                    /\ \A m \in 1..(i - 1) : ~DeclaredAt(source, name, m)
        colon == from + Len(name)
        enders == {j \in (colon + 1)..Len(source) : source[j] \in {";", "}"}}
        to == IF enders = {} THEN Len(source)
              ELSE (CHOOSE j \in enders : \A m \in enders : j <= m) - 1
        body == SubSeq(source, colon + 1, to)
    IN  [from |-> from, colon |-> colon, to |-> to,
         value |-> colon + 1 + LeadingRun(body, Whitespace)]

\* The source with the given declarations rewritten: the variable's name and
\* colon stay, what follows up to the end of the declaration is the text
\* given for it, and every character outside the declarations stays.
RECURSIVE Rewritten(_, _, _)
Rewritten(source, rewrites, i) ==
    IF i > Len(source) THEN <<>>
    ELSE IF \E r \in rewrites : r.from = i
         THEN LET r == CHOOSE q \in rewrites : q.from = i
              IN  SubSeq(source, r.from, r.colon) \o r.text
                      \o Rewritten(source, rewrites, r.to + 1)
         ELSE <<source[i]>> \o Rewritten(source, rewrites, i + 1)

\* The sources the claim allows as the result: the first declaration of each
\* of the three variables has its new value, after the blanks it had after
\* its colon or after one blank, and nothing else has changed.
ExpectedPrimary(source, c) ==
    LET new == [n \in {VarPrimary, VarPrimaryDark, VarPrimaryLight} |->
                   IF n = VarPrimary THEN c
                   ELSE IF n = VarPrimaryDark THEN darkenColor(c, DerivedPercent)
                   ELSE lightenColor(c, DerivedPercent)]
        decl == [n \in DOMAIN new |-> FirstDeclared(source, n)]
        keepingBlanks ==
            {[from |-> decl[n].from, colon |-> decl[n].colon, to |-> decl[n].to,
              text |-> SubSeq(source, decl[n].colon + 1, decl[n].value - 1) \o new[n]] :
                n \in DOMAIN new}
        oneBlank ==
            {[from |-> decl[n].from, colon |-> decl[n].colon, to |-> decl[n].to,
              text |-> <<" ">> \o new[n]] : n \in DOMAIN new}
    IN  {Rewritten(source, keepingBlanks, 1), Rewritten(source, oneBlank, 1)}

PrimaryOnly(c) == <<[primaryColor |-> <<c>>, secondaryColor |-> <<>>, accentColor |-> <<>>]>>

\* C7: for a customizable theme whose source declares --theme-primary,
\* --theme-primary-dark and --theme-primary-light, getThemeCSS(name,
\* {primaryColor: c}) returns the source in which the first declaration of
\* each of the three has the value c, darken(c, 20) and lighten(c, 20), and
\* in which every other character, the --theme-secondary and --theme-accent
\* declarations included, is as it was.
C7_PrimaryAndDerived ==
    (/\ cssResult # <<>>
     /\ cssResult[1].status = "ok"
     /\ cssResult[1].theme[1].customizable
     /\ cssResult[1].customization = PrimaryOnly(NewPrimary)
     /\ Declares(cssResult[1].content[1], VarPrimary)
     /\ Declares(cssResult[1].content[1], VarPrimaryDark)
     /\ Declares(cssResult[1].content[1], VarPrimaryLight))
    => cssResult[1].css[1] \in ExpectedPrimary(cssResult[1].content[1], NewPrimary)

---------------------------------------------------------------------------
(* The registry in use: initialize() and refreshThemes() calls, which take *)
(* turns at their awaits, reads between their steps, and theme files that  *)
(* come and go.                                                            *)

\* The most changes made to the themes directory.
MaxFsOps == 1

StaticSource == <<"b", "{", "c", ":", "r", ";", "}">>

CustomSource == DeclPrimary \o DeclSecondary

ThemeFileB == <<"theme-", "b", ".css">>

OtherFile == <<"not-a-theme", ".css">>

\* The theme files that come and go, and what each holds when it is there.
SourceOf(file) == IF file = ThemeFileA THEN CustomSource ELSE StaticSource

ChangingFiles == {ThemeFileA, ThemeFileB}

\* The calls in progress after a change of the directory: none of them sees
\* the directory it began with.
Disturbed ==
    [c \in Calls |->
        IF procs[c].pc = "idle" THEN procs[c]
        ELSE [procs[c] EXCEPT !.stable = FALSE]]

\* A file is written into the themes directory, new or over an old one.
WriteFile(file) ==
    /\ fsOps < MaxFsOps
    /\ dirExists
    /\ files[file] = <<>>
    /\ files' = [files EXCEPT ![file] = <<SourceOf(file)>>]
    /\ fsOps' = fsOps + 1
    /\ procs' = Disturbed
    /\ UNCHANGED <<dirExists, themes, cssCall, cssResult, lastRefresh>>
    /\ UNCHANGED <<parserVars, colorVars, managerVars, converterVars, webVars>>

\* A file of the themes directory is deleted.
RemoveFile(file) ==
    /\ fsOps < MaxFsOps
    /\ files[file] # <<>>
    /\ files' = [files EXCEPT ![file] = <<>>]
    /\ fsOps' = fsOps + 1
    /\ procs' = Disturbed
    /\ UNCHANGED <<dirExists, themes, cssCall, cssResult, lastRefresh>>
    /\ UNCHANGED <<parserVars, colorVars, managerVars, converterVars, webVars>>

\* The themes directory is removed with all it holds.
RemoveDir ==
    /\ fsOps < MaxFsOps
    /\ dirExists
    /\ dirExists' = FALSE
    /\ files' = NoFiles
    /\ fsOps' = fsOps + 1
    /\ procs' = Disturbed
    /\ UNCHANGED <<themes, cssCall, cssResult, lastRefresh>>
    /\ UNCHANGED <<parserVars, colorVars, managerVars, converterVars, webVars>>

InitRegistry ==
    /\ dirExists \in BOOLEAN
    /\ files \in {[f \in FileNameSet |->
                       IF f \in present \cup {OtherFile} THEN <<SourceOf(f)>> ELSE <<>>] :
                    present \in SUBSET ChangingFiles} \cup {NoFiles}
    /\ dirExists <=> files # NoFiles
    /\ fsOps = 0
    /\ themes = NoThemes
    /\ procs = [c \in Calls |-> IdleCall]
    /\ cssCall = <<>>
    /\ cssResult = <<>>
    /\ lastRefresh = <<>>
    /\ ParserIdle
    /\ ColorIdle
    /\ ManagerIdle
    /\ ConverterIdle
    /\ WebIdle

NextRegistry ==
    \/ \E p \in Calls :
           \/ InitializeStart(p)
           \/ RefreshStart(p)
           \/ PathExistsDone(p)
           \/ ReaddirDone(p)
           \/ CustomizableDone(p)
           \/ PrimaryDone(p)
           \/ SecondaryDone(p)
           \/ AccentDone(p)
    \/ \E file \in ChangingFiles : WriteFile(file)
    \/ \E file \in ChangingFiles : RemoveFile(file)
    \/ RemoveDir

SpecRegistry == InitRegistry /\ [][NextRegistry]_vars

\* The refreshThemes() calls in progress that are the only call in progress
\* and have the directory as it was when they began.
QuietRefreshes ==
    {c \in Calls : procs[c].kind = "refresh" /\ procs[c].alone /\ procs[c].stable}

\* C9: while a refreshThemes() call is in progress, a read observes the
\* descriptors there were before the refresh or the ones there are after it,
\* never none or a part of them. A read is synchronous and returns what the
\* map holds in the state it is made in, so this is said of every state with
\* a refresh in progress: getAvailableThemes returns the themes of before or
\* the themes of the files on disk, and for a theme that is in both,
\* getThemeInfo finds it and getThemeCSS does not fail with 'not found'.
C9_ReadsSeeWholeSets ==
    \A c \in QuietRefreshes :
        /\ {info.name : info \in getAvailableThemes} \in {procs[c].before, ThemeFileNames}
        /\ \A name \in procs[c].before \cap ThemeFileNames :
               getThemeInfo(name) # <<>>

\* C10: when a refreshThemes() call returns, with the directory as it was
\* when the call and the calls in progress with it began, the themes of the
\* map are exactly the themes of the theme files in the directory: one for
\* every file added since the discovery before, none for a file deleted
\* since.
C10_RefreshMatchesDirectory ==
    (lastRefresh # <<>> /\ lastRefresh[1].stable)
        => lastRefresh[1].names = lastRefresh[1].fileNames


---------------------------------------------------------------------------
(* ThemeManager: the Theme definitions generated for the discovered themes *)
(* and registered by hand. A font list is a sequence of tokens: the family *)
(* names, and the characters between them.                                 *)

FontHelvetica == <<"Helvetica", ",", " ", "Arial", ",", " ", "sans-serif">>

FontTimes == <<"Times New Roman", ",", " ", "serif">>

FontArial == <<"Arial", ",", " ", "sans-serif">>

FontCourier == <<"Courier New", ",", " ", "monospace">>

FontMonaco == <<"Monaco", ",", " ", "Consolas", ",", " ", "monospace">>

\* A colour written as '#' and its digits.
Hex(digits) == <<"#">> \o digits

\* value || fallback for an optional text.
OrElse(field, fallback) == IF IsGiven(field) THEN field[1] ELSE fallback

\* The Theme that generateThemeFromCSS builds before the switch.
BaseTheme(cssTheme) ==
    [name |-> cssTheme.name,
     fonts |-> [body |-> FontHelvetica, heading |-> FontHelvetica,
                monospace |-> FontCourier],
     colors |-> [primary |-> OrElse(cssTheme.primaryColor, Hex(<<"3", "3", "3", "3", "3", "3">>)),
                 secondary |-> OrElse(cssTheme.secondaryColor, Hex(<<"6", "6", "6", "6", "6", "6">>)),
                 text |-> Hex(<<"0", "0", "0", "0", "0", "0">>),
                 background |-> Hex(<<"f", "f", "f", "f", "f", "f">>),
                 accent |-> OrElse(cssTheme.accentColor, Hex(<<"0", "0", "6", "6", "c", "c">>))],
     spacing |-> [margin |-> "40px", padding |-> "15px", lineHeight |-> "1.6"],
     sizes |-> [h1 |-> "24px", h2 |-> "18px", h3 |-> "16px", body |-> "12px",
                small |-> "11px"]]

\* generateThemeFromCSS(cssTheme): the base theme with the overrides of the
\* four named themes.
generateThemeFromCSS(cssTheme) ==
    LET base == BaseTheme(cssTheme)
    IN  IF cssTheme.name = <<"ats">>
        THEN [base EXCEPT
                !.fonts = [body |-> FontHelvetica, heading |-> FontHelvetica,
                           monospace |-> FontCourier],
                !.colors.primary = Hex(<<"0", "0", "0", "0", "0", "0">>),
                !.colors.secondary = Hex(<<"3", "3", "3", "3", "3", "3">>),
                !.colors.accent = Hex(<<"0", "0", "0", "0", "0", "0">>),
                !.spacing = [margin |-> "40px", padding |-> "10px", lineHeight |-> "1.5"]]
        ELSE IF cssTheme.name = <<"classic">>
        THEN [base EXCEPT
                !.fonts = [body |-> FontTimes, heading |-> FontTimes,
                           monospace |-> FontCourier],
                !.colors.primary = Hex(<<"0", "0", "0", "0", "0", "0">>),
                !.colors.secondary = Hex(<<"6", "6", "6", "6", "6", "6">>),
                !.colors.accent = Hex(<<"8", "0", "0", "0", "0", "0">>),
                !.spacing = [margin |-> "50px", padding |-> "15px", lineHeight |-> "1.5"]]
        ELSE IF cssTheme.name = <<"minimal">>
        THEN [base EXCEPT
                !.fonts = [body |-> FontHelvetica, heading |-> FontHelvetica,
                           monospace |-> FontMonaco],
                !.colors.primary = Hex(<<"1", "a", "1", "a", "1", "a">>),
                !.colors.secondary = Hex(<<"6", "6", "6", "6", "6", "6">>),
                !.colors.accent = Hex(<<"0", "0", "6", "6", "c", "c">>),
                !.spacing = [margin |-> "60px", padding |-> "10px", lineHeight |-> "1.7"]]
        ELSE IF cssTheme.name = <<"modern">>
        THEN [base EXCEPT
                !.fonts = [body |-> FontArial, heading |-> FontArial,
                           monospace |-> FontCourier],
                !.colors.primary = Hex(<<"2", "c", "3", "e", "5", "0">>),
                !.colors.secondary = Hex(<<"3", "4", "9", "8", "d", "b">>),
                !.colors.accent = Hex(<<"e", "7", "4", "c", "3", "c">>),
                !.spacing = [margin |-> "40px", padding |-> "20px", lineHeight |-> "1.6"]]
        ELSE base

\* Array.from(this.themes.keys()) of the ThemeManager.
ThemeKeys(definitions) == [i \in 1..Len(definitions) |-> definitions[i].name]

\* this.themes.has(name)
HasTheme(definitions, name) == \E i \in 1..Len(definitions) : definitions[i].name = name

\* this.themes.set(theme.name, theme): a known key keeps its place in the
\* Map, a new one goes to the end.
SetTheme(definitions, theme) ==
    IF HasTheme(definitions, theme.name)
    THEN [i \in 1..Len(definitions) |->
             IF definitions[i].name = theme.name THEN theme ELSE definitions[i]]
    ELSE Append(definitions, theme)

\* this.cssThemeManager.getAvailableThemes() as a list: the descriptors in
\* the order of the Map, which for discoveries that do not overlap is the
\* order in which readdir lists their files.
RECURSIVE DescriptorsFrom(_)
DescriptorsFrom(i) ==
    IF i > Len(FileNames) THEN <<>>
    ELSE IF ThemeNameOf(FileNames[i]) \in DOMAIN themes
         THEN <<themes[ThemeNameOf(FileNames[i])]>> \o DescriptorsFrom(i + 1)
         ELSE DescriptorsFrom(i + 1)

\* The loop of syncWithCSSThemes: a definition is generated for every
\* descriptor whose name has none.
RECURSIVE SyncLoop(_, _)
SyncLoop(definitions, cssThemes) ==
    IF cssThemes = <<>> THEN definitions
    ELSE SyncLoop(IF HasTheme(definitions, Head(cssThemes).name)
                  THEN definitions
                  ELSE SetTheme(definitions, generateThemeFromCSS(Head(cssThemes))),
                  Tail(cssThemes))

\* names.join(', ')
RECURSIVE JoinNames(_)
JoinNames(names) ==
    IF names = <<>> THEN <<>>
    ELSE IF Len(names) = 1 THEN Head(names)
    ELSE Head(names) \o <<", ">> \o JoinNames(Tail(names))

\* `Theme '${name}' not found. Available themes: ${keys.join(', ')}`
ManagerNotFoundMessage(name, definitions) ==
    <<"Theme '">> \o name \o <<"' not found. Available themes: ">>
        \o JoinNames(ThemeKeys(definitions))

\* async ThemeManager.initialize() up to its await: the CSS theme manager's
\* initialize() begins.
ManagerInitializeStart ==
    /\ tmPc = "idle"
    /\ IsFreeSlot(1)
    /\ procs' = Begun(1, "initialize", {})
    /\ tmPc' = "initialize"
    /\ UNCHANGED <<themes, cssCall, cssResult, lastRefresh, tmThemes, tmResult>>
    /\ UNCHANGED <<parserVars, colorVars, fsVars, converterVars, webVars>>

\* async ThemeManager.refreshThemes() up to its await: the CSS theme
\* manager's refreshThemes() clears its map and begins.
ManagerRefreshStart ==
    /\ tmPc = "idle"
    /\ IsFreeSlot(1)
    /\ themes' = NoThemes
    /\ procs' = Begun(1, "refresh", DOMAIN themes)
    /\ tmPc' = "refresh"
    /\ UNCHANGED <<cssCall, cssResult, lastRefresh, tmThemes, tmResult>>
    /\ UNCHANGED <<parserVars, colorVars, fsVars, converterVars, webVars>>

\* The CSS theme manager's call has returned: syncWithCSSThemes() runs and
\* the ThemeManager's call returns.
ManagerSync ==
    /\ tmPc # "idle"
    /\ procs[1].pc = "idle"
    /\ tmThemes' = SyncLoop(tmThemes, DescriptorsFrom(1))
    /\ tmPc' = "idle"
    /\ UNCHANGED tmResult
    /\ UNCHANGED <<parserVars, colorVars, fsVars, registryVars, converterVars, webVars>>

\* registerTheme(theme)
RegisterTheme(theme) ==
    /\ tmThemes' = SetTheme(tmThemes, theme)
    /\ tmThemes' # tmThemes
    /\ UNCHANGED <<tmPc, tmResult>>
    /\ UNCHANGED <<parserVars, colorVars, fsVars, registryVars, converterVars, webVars>>

\* getTheme(name): the definition, or the error thrown for a name that has
\* none.
GetTheme(name) ==
    /\ tmResult' =
           IF HasTheme(tmThemes, name)
           THEN <<[status |-> "ok",
                   name |-> name,
                   theme |-> <<CHOOSE t \in {tmThemes[i] : i \in 1..Len(tmThemes)} :
                                   t.name = name>>,
                   message |-> <<>>]>>
           ELSE <<[status |-> "not found",
                   name |-> name,
                   theme |-> <<>>,
                   message |-> ManagerNotFoundMessage(name, tmThemes)]>>
    /\ UNCHANGED <<tmThemes, tmPc>>
    /\ UNCHANGED <<parserVars, colorVars, fsVars, registryVars, converterVars, webVars>>

\* The theme files of the four named themes and of one more theme.
ManagerFiles ==
    {ThemeFileA, <<"theme-", "ats", ".css">>, <<"theme-", "classic", ".css">>,
     <<"theme-", "minimal", ".css">>, <<"theme-", "modern", ".css">>}

\* A Theme registered by hand, under a name of its own or of a named theme.
RegisteredTheme(name) ==
    [BaseTheme([name |-> name, primaryColor |-> <<>>, secondaryColor |-> <<>>,
                accentColor |-> <<>>])
        EXCEPT !.fonts.body = FontMonaco]

RegisteredNames == {<<"x">>, <<"modern">>}

ManagerRequested == {<<"a">>, <<"ats">>, <<"classic">>, <<"minimal">>, <<"modern">>, <<"x">>, <<"z">>}

\* The directories the ThemeManager starts with: all the files, all but one
\* of them, or none.
ManagerDirectories ==
    {ManagerFiles, {}} \cup {ManagerFiles \ {f} : f \in ManagerFiles}

InitManager ==
    /\ dirExists = TRUE
    /\ files \in {[f \in FileNameSet |-> IF f \in present THEN <<SourceOf(f)>> ELSE <<>>] :
                    present \in ManagerDirectories}
    /\ fsOps = 0
    /\ themes = NoThemes
    /\ procs = [c \in Calls |-> IdleCall]
    /\ cssCall = <<>>
    /\ cssResult = <<>>
    /\ lastRefresh = <<>>
    /\ tmThemes = <<>>
    /\ tmPc = "idle"
    /\ tmResult = <<>>
    /\ ParserIdle
    /\ ColorIdle
    /\ ConverterIdle
    /\ WebIdle

\* A call made when no other call of the ThemeManager is in progress; a
\* getTheme or getThemeCSS call takes the place of the result before it.
WhenIdle == tmPc = "idle" /\ cssCall = <<>>

NextManager ==
    \/ WhenIdle /\ ManagerInitializeStart
    \/ WhenIdle /\ ManagerRefreshStart
    \/ PathExistsDone(1)
    \/ ReaddirDone(1)
    \/ CustomizableDone(1)
    \/ PrimaryDone(1)
    \/ SecondaryDone(1)
    \/ AccentDone(1)
    \/ ManagerSync
    \/ \E name \in RegisteredNames : WhenIdle /\ RegisterTheme(RegisteredTheme(name))
    \/ \E name \in ManagerRequested : WhenIdle /\ GetTheme(name)
    \/ \E name \in RequestedNames : WhenIdle /\ GetThemeCSSStart(name, <<>>)
    \/ GetThemeCSSDone

SpecManager == InitManager /\ [][NextManager]_vars

\* The step in which getThemeCSS fails with 'not found'.
CssLookupFails ==
    /\ cssResult' # cssResult
    /\ cssResult' # <<>>
    /\ cssResult'[1].status = "not found"

\* The step in which getTheme fails with 'not found'.
ManagerLookupFails ==
    /\ tmResult' # tmResult
    /\ tmResult' # <<>>
    /\ tmResult'[1].status = "not found"

\* C11: a request for a theme by a name that is not in the registry, made
\* with getThemeCSS or with getTheme, fails with a 'not found' error whose
\* message has every name the registry knows at that time, and leaves the
\* registry as it is.
C11_NotFoundNamesKnownThemes ==
    [][/\ CssLookupFails =>
             /\ themes' = themes
             /\ \A known \in DOMAIN themes : Includes(cssResult'[1].message, known)
       /\ ManagerLookupFails =>
             /\ tmThemes' = tmThemes
             /\ \A i \in 1..Len(tmThemes) :
                    Includes(tmResult'[1].message, tmThemes[i].name)]_vars


---------------------------------------------------------------------------
(* Discovery on its own: a directory that does not change, and one         *)
(* initialize() or refreshThemes() call after the other.                   *)

\* The files of the directory: theme files, one of them with the extension
\* inside its name too, and files with another prefix, with no extension
\* and with another extension.
DiscoveryFiles ==
    {OtherFile, ThemeFileA, ThemeFileB,
     <<"theme-", "a", ".css", ".bak">>,
     <<"theme-", "invalid">>,
     <<"theme-", "x", ".css", "y", ".css">>}

InitDiscovery ==
    /\ dirExists \in BOOLEAN
    /\ files \in {[f \in FileNameSet |-> IF f \in present THEN <<SourceOf(f)>> ELSE <<>>] :
                    present \in SUBSET DiscoveryFiles}
    /\ ~dirExists => files = NoFiles
    /\ fsOps = 0
    /\ themes = NoThemes
    /\ procs = [c \in Calls |-> IdleCall]
    /\ cssCall = <<>>
    /\ cssResult = <<>>
    /\ lastRefresh = <<>>
    /\ ParserIdle
    /\ ColorIdle
    /\ ManagerIdle
    /\ ConverterIdle
    /\ WebIdle

NextDiscovery ==
    \/ InitializeStart(1)
    \/ RefreshStart(1)
    \/ PathExistsDone(1)
    \/ ReaddirDone(1)
    \/ CustomizableDone(1)
    \/ PrimaryDone(1)
    \/ SecondaryDone(1)
    \/ AccentDone(1)

SpecDiscovery == InitDiscovery /\ [][NextDiscovery]_vars

\* A discovery has completed and none is in progress: the map has
\* descriptors, or a refreshThemes() call has returned.
Discovered == AllIdle /\ (themes # NoThemes \/ lastRefresh # <<>>)

\* A file name of the pattern theme-<name>.css, and the <name> in it.
MatchesPattern(file) ==
    /\ Len(file) >= 2
    /\ Head(file) = "theme-"
    /\ file[Len(file)] = ".css"

NameInPattern(file) == SubSeq(file, 2, Len(file) - 1)

FilesPresent == {f \in FileNameSet : dirExists /\ files[f] # <<>>}

\* C12: discovery yields exactly one descriptor for each file of the
\* directory whose name is theme-<name>.css, with the name <name>, and no
\* descriptor for a file with another prefix or another or no extension.
C12_OneDescriptorPerThemeFile ==
    Discovered =>
        /\ \A f \in {g \in FilesPresent : MatchesPattern(g)} :
               /\ Cardinality({n \in DOMAIN themes : themes[n].cssPath = f}) = 1
               /\ NameInPattern(f) \in DOMAIN themes
               /\ themes[NameInPattern(f)].name = NameInPattern(f)
               /\ themes[NameInPattern(f)].cssPath = f
        /\ \A n \in DOMAIN themes :
               themes[n].cssPath \in {g \in FilesPresent : MatchesPattern(g)}


---------------------------------------------------------------------------
(* The descriptor of a discovered theme against the content of its file.   *)

\* The one theme file of SpecCustomize has been discovered: its content and
\* its descriptor.
ThemeADiscovered == AllIdle /\ <<"a">> \in DOMAIN themes

ContentA == files[ThemeFileA][1]

DescriptorA == themes[<<"a">>]

\* The trimmed text between the first declaration token of the variable (its
\* name and colon) and the next ';', as an optional text: <<>> when the
\* source has no such token or no ';' after it.
TextToTerminator(source, name) ==
    IF ~Declares(source, name) THEN <<>>
    ELSE LET from == CHOOSE i \in 1..Len(source) :
                         /\ DeclaredAt(source, name, i)
                         /\ \A m \in 1..(i - 1) : ~DeclaredAt(source, name, m)
             colon == from + Len(name)
             ends == {j \in (colon + 1)..Len(source) : source[j] = ";"}
         IN  IF ends = {} THEN <<>>
             ELSE <<Trim(SubSeq(source, colon + 1,
                                (CHOOSE j \in ends : \A m \in ends : j <= m) - 1))>>

\* The colour fields of a customizable theme are the texts of the
\* declarations, and the ones of a theme that is not customizable are absent.
ColourFieldsFollow(descriptor, content) ==
    IF descriptor.customizable
    THEN /\ descriptor.primaryColor = TextToTerminator(content, VarPrimary)
         /\ descriptor.secondaryColor = TextToTerminator(content, VarSecondary)
         /\ descriptor.accentColor = TextToTerminator(content, VarAccent)
    ELSE /\ descriptor.primaryColor = <<>>
         /\ descriptor.secondaryColor = <<>>
         /\ descriptor.accentColor = <<>>

IsHexColour(text) ==
    /\ Len(text) = 7
    /\ text[1] = "#"
    /\ \A i \in 2..7 : text[i] \in HexDigitSet

\* C14: in every descriptor the registry holds after a discovery, the colour
\* fields are all absent or each of them is a well-formed colour of six
\* hexadecimal digits: none is present while another is absent, and none
\* holds another text.
C14_ColoursAllOrNone ==
    ThemeADiscovered =>
        LET fields == {DescriptorA.primaryColor, DescriptorA.secondaryColor,
                       DescriptorA.accentColor}
        IN  \/ fields = {<<>>}
            \/ \A field \in fields : field # <<>> /\ IsHexColour(field[1])


---------------------------------------------------------------------------
(* The ThemeManager while theme files come and go: initialize(),           *)
(* refreshThemes() and registerTheme() calls, one after another, and the   *)
(* directory changing between and during them.                             *)

InitLifecycle ==
    /\ dirExists = TRUE
    /\ files \in {[f \in FileNameSet |-> IF f \in present THEN <<SourceOf(f)>> ELSE <<>>] :
                    present \in SUBSET ChangingFiles}
    /\ fsOps = 0
    /\ themes = NoThemes
    /\ procs = [c \in Calls |-> IdleCall]
    /\ cssCall = <<>>
    /\ cssResult = <<>>
    /\ lastRefresh = <<>>
    /\ tmThemes = <<>>
    /\ tmPc = "idle"
    /\ tmResult = <<>>
    /\ ParserIdle
    /\ ColorIdle
    /\ ConverterIdle
    /\ WebIdle

NextLifecycle ==
    \/ WhenIdle /\ ManagerInitializeStart
    \/ WhenIdle /\ ManagerRefreshStart
    \/ PathExistsDone(1)
    \/ ReaddirDone(1)
    \/ CustomizableDone(1)
    \/ PrimaryDone(1)
    \/ SecondaryDone(1)
    \/ AccentDone(1)
    \/ ManagerSync
    \/ \E name \in RegisteredNames : WhenIdle /\ RegisterTheme(RegisteredTheme(name))
    \/ \E file \in ChangingFiles : WriteFile(file)
    \/ \E file \in ChangingFiles : RemoveFile(file)

SpecLifecycle == InitLifecycle /\ [][NextLifecycle]_vars

\* The names getAvailableThemes() of the ThemeManager returns.
ListedNames == {tmThemes[i].name : i \in 1..Len(tmThemes)}

\* The names registered by hand: their definitions have the body font that
\* only RegisteredTheme gives.
RegisteredByHand ==
    {tmThemes[i].name : i \in {k \in 1..Len(tmThemes) : tmThemes[k].fonts.body = FontMonaco}}

\* C29: when no initialize() or refreshThemes() call is in progress, the
\* names that getAvailableThemes() returns are the names the CSS theme
\* manager has discovered and the names registered by hand: every
\* discovered theme has a definition, and a theme whose file was not there
\* at the latest refresh is listed only if it was registered.
C29_ListedAreDiscoveredOrRegistered ==
    (tmPc = "idle" /\ procs[1].pc = "idle")
        => ListedNames = (DOMAIN themes) \cup RegisteredByHand

---------------------------------------------------------------------------
(* Customization against discovery.                                        *)

ColourVariables == {VarPrimary, VarSecondary, VarAccent}

\* The field of a customization or of a descriptor that belongs to a
\* variable.
FieldOf(record, name) ==
    IF name = VarPrimary THEN record.primaryColor
    ELSE IF name = VarSecondary THEN record.secondaryColor
    ELSE record.accentColor

\* How many declaration tokens of the variable a text has.
DeclarationCount(text, name) ==
    Cardinality({i \in 1..Len(text) : DeclaredAt(text, name, i)})

\* A getThemeCSS call for a customizable theme has returned, with a
\* customization each of whose colours has a declaration in the source.
CustomizedDeclared ==
    /\ cssResult # <<>>
    /\ cssResult[1].status = "ok"
    /\ cssResult[1].theme[1].customizable
    /\ cssResult[1].customization # <<>>
    /\ \A n \in ColourVariables :
           IsGiven(FieldOf(cssResult[1].customization[1], n))
               => Declares(cssResult[1].content[1], n)

\* What discovery extracts from the returned text is the supplied value for
\* an overridden variable and the discovered value for the others, and no
\* declaration has come or gone.
ExtractionFollows ==
    \A n \in ColourVariables :
        /\ ExtractDeclaration(cssResult[1].css[1], n) =
               IF IsGiven(FieldOf(cssResult[1].customization[1], n))
               THEN FieldOf(cssResult[1].customization[1], n)
               ELSE FieldOf(cssResult[1].theme[1], n)
        /\ DeclarationCount(cssResult[1].css[1], n) =
               DeclarationCount(cssResult[1].content[1], n)

\* C27: for a customizable theme and a customization that gives colours of
\* six hexadecimal digits for some of primary, secondary and accent, each
\* declared by the theme, the discovery extraction applied to the text that
\* getThemeCSS returns gives the supplied value for each overridden variable
\* and the discovered value for each other variable, and each overridden
\* declaration is replaced once: no declaration is added or lost.
C27_CustomizationMatchesDiscovery == CustomizedDeclared => ExtractionFollows


---------------------------------------------------------------------------
(* Discovery and what it cannot read.                                      *)

\* Call p returns in this step, having been the only call in progress and
\* with the directory as it was when it began.
ReturnsQuietly(p) ==
    /\ procs[p].pc # "idle"
    /\ procs'[p].pc = "idle"
    /\ procs[p].alone
    /\ procs[p].stable

\* Call p sets the descriptor of a customizable-looking file in this step,
\* and the file cannot be read as its last colour is extracted.
SetsUnreadable(p) ==
    /\ procs[p].pc = "accent"
    /\ procs'[p].pc # "accent"
    /\ ReadFile(Head(procs[p].queue)) = <<>>

\* A descriptor that is not customizable and has no colour.
IsPlain(info) ==
    /\ ~info.customizable
    /\ info.primaryColor = <<>>
    /\ info.secondaryColor = <<>>
    /\ info.accentColor = <<>>

\* When an initialize() or refreshThemes() call returns and there is no
\* themes directory, the map holds no descriptor.
MissingDirectoryGivesNone ==
    \A p \in Calls : (ReturnsQuietly(p) /\ ~dirExists) => themes' = NoThemes

\* When a call returns, every theme file of the directory has its
\* descriptor.
EveryFileDiscovered ==
    \A p \in Calls :
        (ReturnsQuietly(p) /\ dirExists) => ThemeFileNames \subseteq DOMAIN themes'

\* A file that cannot be read when its colours are extracted gets a
\* descriptor that is not customizable and has no colour.
UnreadableGivesPlain ==
    \A p \in Calls :
        SetsUnreadable(p) => IsPlain(themes'[ThemeNameOf(Head(procs[p].queue))])

\* C15: discovery never fails. A call of initialize() or refreshThemes()
\* that finds no themes directory leaves no descriptor; a theme file that
\* cannot be read gets a descriptor that is not customizable and has no
\* colour; and every other theme file is discovered.
C15_DiscoveryNeverFails ==
    [][/\ MissingDirectoryGivesNone
       /\ EveryFileDiscovered
       /\ UnreadableGivesPlain]_vars

---------------------------------------------------------------------------
(* WordRenderer: rendered markup to the paragraphs of a Word document.     *)
(* Markup is a sequence of tokens. A tag with attributes is its opening    *)
(* token ("<div"), its attribute tokens and ">"; a closing tag, a tag      *)
(* written without attributes and the doctype are one token each; a line   *)
(* break is "\n", a blank " ", and every other token is a piece of text.   *)

\* The tokens that begin a tag and do not end it.
TagOpen ==
    {"<h1", "<h2", "<h3", "<li", "<p", "<div", "<style", "<script",
     "<header", "<section", "<article", "<html", "<body"}

\* The tokens that are a whole tag.
TagWhole ==
    {"</h1>", "</h2>", "</h3>", "</li>", "</p>", "</div>", "</style>",
     "</script>", "</header>", "</section>", "</article>", "</html>",
     "</body>", "<b>", "</b>", "<!DOCTYPE html>"}

ClassContent == " class=\"content\""

ClassHeader == " class=\"header\""

ClassOther == " class=\"x\""

\* The tokens that begin with a blank.
BlankFirst == Whitespace \cup {ClassContent, ClassHeader, ClassOther}

\* The token has a '>' in it; it is then its last character.
HasGt(token) == token = ">" \/ token \in TagWhole

\* The token begins with '<'.
HasLt(token) == token \in TagOpen \cup TagWhole

\* The first position from `from` on whose token has a '>', 0 for none:
\* where [^>]*> ends.
NextGt(text, from) ==
    LET found == {j \in from..Len(text) : HasGt(text[j])}
    IN  IF found = {} THEN 0
        ELSE CHOOSE j \in found : \A other \in found : j <= other

\* The first position from `from` on that holds the token, 0 for none.
NextToken(text, token, from) ==
    LET found == {k \in from..Len(text) : text[k] = token}
    IN  IF found = {} THEN 0
        ELSE CHOOSE k \in found : \A other \in found : k <= other

\* A match of /<open[^>]*attr[^>]*>([\s\S]*?)<\/close>/ that begins at i:
\* the tag ends at the first '>' after i, the attribute lies before it, and
\* the closing tag is the first one after it. "" stands for no attribute.
TagMatchAt(text, open, attr, close, i) ==
    LET j == NextGt(text, i + 1)
    IN  /\ text[i] = open
        /\ j # 0
        /\ attr # "" => \E a \in (i + 1)..(j - 1) : text[a] = attr
        /\ NextToken(text, close, j + 1) # 0

\* The leftmost match: <<i, j, k>> with the opening tag from i to j and the
\* closing tag at k, or <<>> for no match.
TagMatch(text, open, attr, close) ==
    LET starts == {i \in 1..Len(text) : TagMatchAt(text, open, attr, close, i)}
    IN  IF starts = {} THEN <<>>
        ELSE LET i == CHOOSE s \in starts : \A other \in starts : s <= other
                 j == NextGt(text, i + 1)
             IN  <<i, j, NextToken(text, close, j + 1)>>

\* The capture group of a match.
MatchGroup(text, match) == SubSeq(text, match[2] + 1, match[3] - 1)

\* text.replace(/<open[^>]*attr[^>]*>[\s\S]*?<\/close>/gi, ''). Markup has
\* its tags in lower case here.
RECURSIVE RemoveBlocks(_, _, _, _)
RemoveBlocks(text, open, attr, close) ==
    LET match == TagMatch(text, open, attr, close)
    IN  IF match = <<>> THEN text
        ELSE SubSeq(text, 1, match[1] - 1)
             \o RemoveBlocks(SubSeq(text, match[3] + 1, Len(text)), open, attr, close)

\* extractCleanContent(htmlContent)
extractCleanContent(htmlContent) ==
    LET noStyle == RemoveBlocks(htmlContent, "<style", "", "</style>")
        noScript == RemoveBlocks(noStyle, "<script", "", "</script>")
        contentMatch == TagMatch(noScript, "<div", ClassContent, "</div>")
        inner == IF contentMatch # <<>> THEN MatchGroup(noScript, contentMatch)
                 ELSE noScript
        noHeader == RemoveBlocks(inner, "<header", "", "</header>")
    IN  RemoveBlocks(noHeader, "<div", ClassHeader, "</div>")

\* html.replace(/<[^>]*>/g, '')
RECURSIVE RemoveTags(_)
RemoveTags(html) ==
    IF html = <<>> THEN <<>>
    ELSE IF HasLt(Head(html))
         THEN IF NextGt(html, 1) = 0 THEN html
              ELSE RemoveTags(SubSeq(html, NextGt(html, 1) + 1, Len(html)))
         ELSE <<Head(html)>> \o RemoveTags(Tail(html))

\* A mutant of stripHtmlTags: the tags are removed, the blanks are kept.
stripHtmlTagsUntrimmed(html) == RemoveTags(html)

\* stripHtmlTags(html)
stripHtmlTags(html) == Trim(RemoveTags(html))

\* The pieces of text that looksLikeCode looks for.
CodeMarks ==
    {"{", "}", "function", "margin:", "padding:", "font-", "color:",
     "background", "border", "ws.on", "location.reload", "Theme:"}

\* The ones that end with a blank: 'const ', 'var ', 'let '.
CodeWords == {"const", "var", "let"}

\* A mutant of looksLikeCode: the words that end with a blank are not
\* looked for.
looksLikeCodeMarksOnly(text) == \E i \in 1..Len(text) : text[i] \in CodeMarks

\* looksLikeCode(text)
looksLikeCode(text) ==
    \/ \E i \in 1..Len(text) : text[i] \in CodeMarks
    \/ \E i \in 1..(Len(text) - 1) : text[i] \in CodeWords /\ text[i + 1] = " "

\* The tags of /^<\/?(?:html|body|div|section|article)(?:\s|>)/
WrapperOpen == {"<html", "<body", "<div", "<section", "<article"}

WrapperClose == {"</html>", "</body>", "</div>", "</section>", "</article>"}

\* A mutant of IsSkippedLine: only the generic container is skipped.
IsSkippedLineDivOnly(trimmedLine) ==
    \/ trimmedLine = <<>>
    \/ Head(trimmedLine) \in {"<div", "</div>"}

\* The test of parseContentToElements for a line to skip: empty, beginning
\* with '<!', or beginning with a wrapper tag.
IsSkippedLine(trimmedLine) ==
    \/ trimmedLine = <<>>
    \/ Head(trimmedLine) = "<!DOCTYPE html>"
    \/ Head(trimmedLine) \in WrapperClose
    \/ /\ Head(trimmedLine) \in WrapperOpen
       /\ Len(trimmedLine) >= 2
       /\ trimmedLine[2] = ">" \/ trimmedLine[2] \in BlankFirst

\* The elements of parseContentToElements; level 0 stands for no level.
Element(type, text, level) == [type |-> type, text |-> text, level |-> level]

\* The body of the loop of parseContentToElements: the elements one line
\* adds, none or one.
LineElements(line) ==
    LET trimmedLine == Trim(line)
        h1Match == TagMatch(trimmedLine, "<h1", "", "</h1>")
        h2Match == TagMatch(trimmedLine, "<h2", "", "</h2>")
        h3Match == TagMatch(trimmedLine, "<h3", "", "</h3>")
        liMatch == TagMatch(trimmedLine, "<li", "", "</li>")
        pMatch == TagMatch(trimmedLine, "<p", "", "</p>")
        plainText == stripHtmlTags(trimmedLine)
    IN  IF IsSkippedLine(trimmedLine) THEN <<>>
        ELSE IF h1Match # <<>>
        THEN <<Element("heading", stripHtmlTags(MatchGroup(trimmedLine, h1Match)), 1)>>
        ELSE IF h2Match # <<>>
        THEN <<Element("heading", stripHtmlTags(MatchGroup(trimmedLine, h2Match)), 2)>>
        ELSE IF h3Match # <<>>
        THEN <<Element("heading", stripHtmlTags(MatchGroup(trimmedLine, h3Match)), 2)>>
        ELSE IF liMatch # <<>>
        THEN <<Element("list-item", stripHtmlTags(MatchGroup(trimmedLine, liMatch)), 0)>>
        ELSE IF pMatch # <<>>
        THEN IF Trim(stripHtmlTags(MatchGroup(trimmedLine, pMatch))) # <<>>
             THEN <<Element("paragraph", stripHtmlTags(MatchGroup(trimmedLine, pMatch)), 0)>>
             ELSE <<>>
        ELSE IF Trim(plainText) # <<>> /\ ~looksLikeCode(plainText)
        THEN <<Element("paragraph", plainText, 0)>>
        ELSE <<>>

RECURSIVE ElementsOfLines(_)
ElementsOfLines(lines) ==
    IF lines = <<>> THEN <<>>
    ELSE LineElements(Head(lines)) \o ElementsOfLines(Tail(lines))

\* parseContentToElements(content)
parseContentToElements(content) == ElementsOfLines(SplitLines(content))

FamilyHelvetica == "Helvetica"

FamilyTimes == "Times New Roman"

FamilyArial == "Arial"

\* A mutant of getThemeFont: the default family for every theme.
getThemeFontDefaultOnly(theme) == FamilyHelvetica

\* getThemeFont(theme): the theme is <<>> for undefined, a name otherwise.
getThemeFont(theme) ==
    IF theme \in {<<"modern">>, <<"ats">>} THEN FamilyHelvetica
    ELSE IF theme = <<"classic">> THEN FamilyTimes
    ELSE IF theme = <<"minimal">> THEN FamilyArial
    ELSE FamilyHelvetica

\* A Paragraph with its one TextRun: what it is, and the text, font and
\* size of the run.
WordParagraph(style, text, font, size) ==
    [style |-> style, text |-> text, font |-> font, size |-> size]

\* contactInfo.join(' | ')
RECURSIVE JoinContact(_)
JoinContact(items) ==
    IF items = <<>> THEN <<>>
    ELSE IF Len(items) = 1 THEN Head(items)
    ELSE Head(items) \o <<" | ">> \o JoinContact(Tail(items))

\* The paragraph of one element of the content.
ElementParagraph(element, themeFont) ==
    IF element.type = "heading"
    THEN <<WordParagraph(IF element.level = 1 THEN "heading1" ELSE "heading2",
                         element.text, themeFont,
                         IF element.level = 1 THEN 28 ELSE 24)>>
    ELSE IF element.type = "paragraph" /\ Trim(element.text) # <<>>
    THEN <<WordParagraph("paragraph", element.text, themeFont, 22)>>
    ELSE IF element.type = "list-item"
    THEN <<WordParagraph("list-item", <<"bullet", " ">> \o element.text, themeFont, 22)>>
    ELSE <<>>

RECURSIVE ElementParagraphs(_, _)
ElementParagraphs(elements, themeFont) ==
    IF elements = <<>> THEN <<>>
    ELSE ElementParagraph(Head(elements), themeFont)
         \o ElementParagraphs(Tail(elements), themeFont)

\* createWordElements(htmlContent, metadata, options). A field of the
\* metadata that is not there is the empty text.
createWordElements(htmlContent, metadata, options) ==
    LET themeFont == getThemeFont(options.theme)
        contactInfo == SelectSeq(<<metadata.email, metadata.phone,
                                   metadata.website, metadata.location>>,
                                 LAMBDA item : item # <<>>)
        contentElements == parseContentToElements(extractCleanContent(htmlContent))
    IN  (IF metadata.name # <<>>
         THEN <<WordParagraph("title", metadata.name, themeFont, 32)>>
         ELSE <<>>)
        \o (IF contactInfo # <<>>
            THEN <<WordParagraph("contact", JoinContact(contactInfo), themeFont, 20)>>
            ELSE <<>>)
        \o ElementParagraphs(contentElements, themeFont)

\* async renderToWord(htmlContent, metadata, options): the default font of
\* the document and the paragraphs of its section, with the elements that
\* createWordElements made them from.
RenderToWord ==
    /\ wordCall # <<>>
    /\ wordResult = <<>>
    /\ LET call == wordCall[1]
       IN  wordResult' =
               <<[font |-> getThemeFont(call.options.theme),
                  children |-> createWordElements(call.htmlContent, call.metadata,
                                                  call.options),
                  contentElements |->
                      parseContentToElements(extractCleanContent(call.htmlContent))]>>
    /\ UNCHANGED wordCall
    /\ UNCHANGED <<parserVars, colorVars, fsVars, registryVars, managerVars, webVars>>

\* The longest text within an element, in tokens.
MaxInline == 3

\* The most pieces a document or a content container is made of.
MaxChunks == 3

InlineTokens == {"t", " ", "<b>", "</b>"}

InlineTexts == SeqsUpTo(InlineTokens, MaxInline)

\* The elements a line can be: their opening and closing tokens.
ElementTags ==
    {<<"<h1", "</h1>">>, <<"<h2", "</h2>">>, <<"<h3", "</h3>">>,
     <<"<li", "</li>">>, <<"<p", "</p>">>}

\* What comes before the tag and within it: nothing, an indentation, an
\* attribute.
LineForms == {<<<<>>, <<>>>>, <<<<" ", " ">>, <<>>>>, <<<<>>, <<ClassOther>>>>}

\* The markup that is one line with one element.
SingleElementLines ==
    {form[1] \o <<tag[1]>> \o form[2] \o <<">">> \o text \o <<tag[2]>> :
        form \in LineForms, tag \in ElementTags, text \in InlineTexts}

HeadingLine == <<"<h2", ">", "t", "</h2>">>

ItemLine == <<"<li", ">", "t", "</li>">>

ParagraphLine == <<"<p", ">", "u", "</p>">>

EmptyParagraphLine == <<"<p", ">", "</p>">>

PlainLine == <<"u">>

CodeLine == <<"<b>", "Theme:", " ", "</b>">>

DoctypeLine == <<"<!DOCTYPE html>">>

\* Lines of a paragraph that markdown-it breaks in two: the opening tag and
\* the closing tag are on different lines.
OpenParagraphLine == <<"<p", ">", "v">>

CloseParagraphLine == <<"v", "</p>">>

\* A line with 'const ' in it, and one that ends with the word.
DeclarationLine == <<"const", " ", "u">>

WordAtEndLine == <<"u", " ", "const">>

\* Tags with no text.
BlankTagLine == <<"<b>", " ", "</b>">>

\* Text after a '<!' tag on the same line.
BangTextLine == <<"<!DOCTYPE html>", "u">>

\* A container within the content, as raw HTML of the markdown gives it.
NestedBlock ==
    <<"<div", ClassOther, ">", "\n", "<p", ">", "t", "</p>", "\n", "</div>">>

StyleBlock == <<"<style", ">", "\n", "s", "\n", "</style>">>

ScriptBlock == <<"<script", ">", "\n", "s", "\n", "</script>">>

\* The name and contact block of renderHeader.
HeaderBlock ==
    <<" ", "<div", ClassHeader, ">", "\n",
      " ", "<h1", ">", "n", "</h1>", "\n",
      " ", "</div>">>

\* Lines that begin with a wrapper tag and have more on them.
OneLineContainer == <<"<div", ClassContent, ">", "<p", ">", "w", "</p>", "</div>">>

SectionLine == <<"<section", ">", "<p", ">", "w", "</p>", "</section>">>

ContainerOpen == <<" ", "<div", ClassContent, ">">>

ContainerClose == <<" ", "</div>">>

\* The pieces of the markup within the content container.
InnerChunks ==
    {HeadingLine, ItemLine, ParagraphLine, EmptyParagraphLine, NestedBlock, StyleBlock}

\* The pieces of markup without the container of generateHTML.
OuterChunks ==
    InnerChunks \cup {HeaderBlock, OneLineContainer, SectionLine, DoctypeLine,
                      CodeLine, PlainLine}

\* The lines that no tag rule matches, with a heading among them.
LooseChunks ==
    {PlainLine, CodeLine, OpenParagraphLine, CloseParagraphLine, DeclarationLine,
     WordAtEndLine, BlankTagLine, BangTextLine, HeadingLine}

BeforeChoices == {<<>>, <<HeaderBlock>>, <<StyleBlock>>, <<ScriptBlock>>}

AfterChoices == {<<>>, <<PlainLine>>}

\* Markup as generateHTML lays it out, and markup without its container.
Documents ==
    {JoinLines(before \o <<ContainerOpen>> \o inner \o <<ContainerClose>> \o after) :
        before \in BeforeChoices,
        inner \in SeqsUpTo(InnerChunks, MaxChunks),
        after \in AfterChoices}
    \cup {JoinLines(chunks) : chunks \in SeqsUpTo(OuterChunks, MaxChunks)}
    \cup {JoinLines(chunks) : chunks \in SeqsUpTo(LooseChunks, MaxChunks)}

NoMetadata ==
    [name |-> <<>>, email |-> <<>>, phone |-> <<>>, website |-> <<>>, location |-> <<>>]

MetadataChoices ==
    {[NoMetadata EXCEPT !.name = name, !.email = email, !.location = location] :
        name \in {<<>>, <<"n">>},
        email \in {<<>>, <<"e">>},
        location \in {<<>>, <<"l">>}}

\* options.theme: undefined, the four themes of the table, another name.
ThemeChoices ==
    {<<>>, <<"modern">>, <<"ats">>, <<"classic">>, <<"minimal">>, <<"x">>}

SampleMarkup ==
    JoinLines(<<ContainerOpen, <<"<h1", ">", "t", "</h1>">>, HeadingLine,
                ParagraphLine, ItemLine, ContainerClose>>)

WordCalls ==
    {[htmlContent |-> html, metadata |-> NoMetadata, options |-> [theme |-> <<"modern">>]] :
        html \in SingleElementLines \cup Documents}
    \cup {[htmlContent |-> SampleMarkup, metadata |-> metadata,
           options |-> [theme |-> theme]] :
            metadata \in MetadataChoices, theme \in ThemeChoices}

InitConverter ==
    /\ wordCall \in {<<call>> : call \in WordCalls}
    /\ wordResult = <<>>
    /\ ParserIdle
    /\ ColorIdle
    /\ RegistryIdle
    /\ ManagerIdle
    /\ WebIdle

NextConverter == RenderToWord

SpecConverter == InitConverter /\ [][NextConverter]_vars

---------------------------------------------------------------------------
(* Properties of the converter.                                            *)

Converted == wordResult # <<>>

Markup == wordCall[1].htmlContent

\* A text with its tags left out and its blanks at both ends removed.
TagsRemoved(text) == Trim(SelectSeq(text, LAMBDA token : ~HasLt(token)))

\* The tag of a line with one element, and the text within the element.
LineTag == Head(Trim(Markup))

LineText ==
    LET line == Trim(Markup)
    IN  SubSeq(line, NextGt(line, 2) + 1, Len(line) - 1)

\* What the line with one element is to give.
ExpectedOfLine ==
    LET text == TagsRemoved(LineText)
    IN  CASE LineTag = "<h1" -> <<Element("heading", text, 1)>>
          [] LineTag \in {"<h2", "<h3"} -> <<Element("heading", text, 2)>>
          [] LineTag = "<li" -> <<Element("list-item", text, 0)>>
          [] LineTag = "<p" -> IF text # <<>> THEN <<Element("paragraph", text, 0)>>
                               ELSE <<>>

\* C16: a line that is one element converts to that element: h1 to a
\* heading of level 1, h2 and h3 to a heading of level 2, li to a list item,
\* p to a paragraph when its text is not empty and to nothing when it is;
\* the text of the element is the text within the tag with its tags removed
\* and trimmed.
C16_SingleElementLines ==
    (Converted /\ Markup \in SingleElementLines)
        => wordResult[1].contentElements = ExpectedOfLine

C16_Witness ==
    /\ Converted
    /\ Markup = <<" ", " ", "<h3", ">", " ", "<b>", "t", "</h3>">>
    /\ wordResult[1].contentElements = <<Element("heading", <<"t">>, 2)>>

\* The text that the inputs have within style and script blocks only.
StyleText == "s"

\* The lines of a text that begin with a document, body, generic container
\* or sectioning tag.
WrapperLines(text) ==
    {line \in {Trim(SplitLines(text)[i]) : i \in 1..Len(SplitLines(text))} :
        line # <<>> /\ Head(line) \in WrapperOpen \cup WrapperClose}

\* The pieces of text of a line.
TextTokens(line) ==
    {line[i] : i \in 1..Len(line)} \ (TagOpen \cup TagWhole \cup BlankFirst \cup {">"})

\* The pieces of text of the elements emitted.
ElementTexts ==
    UNION {TextTokens(wordResult[1].contentElements[i].text) :
              i \in 1..Len(wordResult[1].contentElements)}

\* No element has text of a line of the given markup that begins with a
\* wrapper tag.
NoneFromWrapperLines(text) ==
    \A line \in WrapperLines(text) : TextTokens(line) \cap ElementTexts = {}

\* C17 as stated: no element has text from within a style or script block,
\* and none comes from a line of the rendered markup that begins with a
\* document, body, div, section or article tag.
C17_NothingFromMarkupWrapperLines ==
    Converted => (StyleText \notin ElementTexts /\ NoneFromWrapperLines(Markup))

\* C17: no element has text from within a closed style or script block, and
\* none comes from a line that begins with a document, body, div, section or
\* article tag in the content as it is after the style and script blocks are
\* removed, the content container is cut out and the header blocks are
\* removed.
C17_NothingFromCleanWrapperLines ==
    Converted =>
        /\ StyleText \notin ElementTexts
        /\ NoneFromWrapperLines(extractCleanContent(Markup))

C17_Witness ==
    /\ Converted
    /\ Markup = JoinLines(<<StyleBlock, SectionLine, ParagraphLine>>)
    /\ wordResult[1].contentElements = <<Element("paragraph", <<"u">>, 0)>>

\* Where the opening tag of the content container begins and ends, <<>>
\* for markup without one.
ContainerTag(text) ==
    LET starts == {i \in 1..Len(text) :
                      /\ text[i] = "<div"
                      /\ NextGt(text, i + 1) # 0
                      /\ \E a \in (i + 1)..(NextGt(text, i + 1) - 1) : text[a] = ClassContent}
    IN  IF starts = {} THEN <<>>
        ELSE LET i == CHOOSE s \in starts : \A other \in starts : s <= other
             IN  <<i, NextGt(text, i + 1)>>

\* The closing tag that ends the container open at pos with depth
\* containers open within it, 0 for none.
RECURSIVE ClosingTag(_, _, _)
ClosingTag(text, pos, depth) ==
    IF pos > Len(text) THEN 0
    ELSE IF text[pos] = "<div" THEN ClosingTag(text, pos + 1, depth + 1)
    ELSE IF text[pos] = "</div>"
         THEN IF depth = 0 THEN pos ELSE ClosingTag(text, pos + 1, depth - 1)
    ELSE ClosingTag(text, pos + 1, depth)

HasContainer ==
    /\ ContainerTag(Markup) # <<>>
    /\ ClosingTag(Markup, ContainerTag(Markup)[2] + 1, 0) # 0

\* All the markup within the content container.
CompleteInner ==
    SubSeq(Markup, ContainerTag(Markup)[2] + 1,
           ClosingTag(Markup, ContainerTag(Markup)[2] + 1, 0) - 1)

\* C18: for markup with the content container, the elements emitted are
\* those of all the markup within the container, its style blocks left out:
\* none for a line outside the container, one for every heading, list item
\* and non-empty paragraph line within it, containers nested in it included.
C18_StreamOfCompleteInner ==
    (Converted /\ HasContainer) =>
        wordResult[1].contentElements =
            parseContentToElements(RemoveBlocks(CompleteInner, "<style", "", "</style>"))

\* The table of the fonts: the theme names it has, and the family of each.
TableThemes == {<<"modern">>, <<"ats">>, <<"classic">>, <<"minimal">>}

TableFamily(theme) ==
    CASE theme = <<"modern">> -> "Helvetica"
      [] theme = <<"ats">> -> "Helvetica"
      [] theme = <<"classic">> -> "Times New Roman"
      [] theme = <<"minimal">> -> "Arial"

DefaultFamily == "Helvetica"

\* C19: the font of the Word document is given by the theme name alone: the
\* family of the table for modern, ats, classic and minimal, the default
\* family for every other name and for no name; and every run of the
\* document, title, contact line, headings, paragraphs and list items, has
\* that family.
C19_FontOfThemeName ==
    Converted =>
        LET theme == wordCall[1].options.theme
            family == IF theme \in TableThemes THEN TableFamily(theme)
                      ELSE DefaultFamily
        IN  /\ wordResult[1].font = family
            /\ \A i \in 1..Len(wordResult[1].children) :
                   wordResult[1].children[i].font = family

C19_Witness ==
    /\ Converted
    /\ wordCall[1].options.theme = <<"classic">>
    /\ wordCall[1].metadata.name # <<>>
    /\ wordCall[1].metadata.email # <<>>
    /\ {wordResult[1].children[i].style : i \in 1..Len(wordResult[1].children)}
           = {"title", "contact", "heading1", "heading2", "paragraph", "list-item"}
    /\ \A i \in 1..Len(wordResult[1].children) :
           wordResult[1].children[i].font = "Times New Roman"

---------------------------------------------------------------------------
(* The lines that no tag rule matches.                                     *)

\* A tag rule matches the line: it has an h1, h2, h3, li or p element.
MatchesElementRule(line) ==
    \E tag \in ElementTags : TagMatch(line, tag[1], "", tag[2]) # <<>>

IsWrapperLine(line) == line # <<>> /\ Head(line) \in WrapperOpen \cup WrapperClose

\* A line left to the last rule: not empty, not a wrapper line, no tag rule.
IsOtherLine(line) ==
    /\ line # <<>>
    /\ ~IsWrapperLine(line)
    /\ ~MatchesElementRule(line)

BeginsWithBang(line) == line # <<>> /\ Head(line) = "<!DOCTYPE html>"

\* Position i of the line is within a tag: a token that is a whole tag, or
\* one between the beginning of a tag and the '>' that ends it.
InTag(line, i) ==
    \/ line[i] \in TagWhole
    \/ \E j \in 1..i :
           /\ line[j] \in TagOpen
           /\ \A k \in (j + 1)..(i - 1) : ~HasGt(line[k])
           /\ \E m \in i..Len(line) : m > j /\ HasGt(line[m])

\* The tokens of the line that are not within a tag, from position i on.
RECURSIVE OutsideTags(_, _)
OutsideTags(line, i) ==
    IF i > Len(line) THEN <<>>
    ELSE (IF InTag(line, i) THEN <<>> ELSE <<line[i]>>) \o OutsideTags(line, i + 1)

\* The residue keywords: the ones that are one piece of text, and the ones
\* that are a word and a blank.
ResidueMarks ==
    {"{", "}", "function", "margin:", "padding:", "font-", "color:",
     "background", "border", "ws.on", "location.reload", "Theme:"}

ResidueWords == {"const", "var", "let"}

HasResidue(text) ==
    \/ \E i \in 1..Len(text) : text[i] \in ResidueMarks
    \/ \E i \in 1..(Len(text) - 1) : text[i] \in ResidueWords /\ text[i + 1] = " "

\* What a line left to the last rule is to give: a paragraph of its text
\* without tags when that text is not empty and has no residue keyword.
ParagraphOfText(line) ==
    LET text == Trim(OutsideTags(line, 1))
    IN  IF text # <<>> /\ ~HasResidue(text)
        THEN <<Element("paragraph", text, 0)>>
        ELSE <<>>

\* The elements of the content when every line left to the last rule gives
\* what it is to give and every other line what its rule gives; bangSkipped
\* says whether a line that begins with '<!' gives nothing.
RECURSIVE StreamOf(_, _)
StreamOf(lines, bangSkipped) ==
    IF lines = <<>> THEN <<>>
    ELSE LET line == Trim(Head(lines))
         IN  (IF bangSkipped /\ BeginsWithBang(line) THEN <<>>
              ELSE IF IsOtherLine(line) THEN ParagraphOfText(line)
              ELSE LineElements(line))
             \o StreamOf(Tail(lines), bangSkipped)

CleanLines == SplitLines(extractCleanContent(Markup))

\* C28 as stated: a non-empty line that no heading, list-item or paragraph
\* rule matches and that is not a wrapper line gives a paragraph of its text
\* without tags if and only if that text is not empty and has none of the
\* residue keywords, and no element otherwise; each line gives at most one
\* element and the elements are in the order of the lines.
C28_OtherLineIsParagraph ==
    Converted => wordResult[1].contentElements = StreamOf(CleanLines, FALSE)

\* C28, amended: the same for a line that, besides, does not begin with
\* '<!'; a line that begins with '<!' gives no element, whatever follows
\* the tag on the line.
C28_OtherLineNotBangIsParagraph ==
    Converted => wordResult[1].contentElements = StreamOf(CleanLines, TRUE)

\* C28's case: a line that ends with the word const, a line with 'const '
\* and the second line of a broken paragraph gave two paragraphs, in order.
C28_Witness ==
    /\ Converted
    /\ Markup = JoinLines(<<WordAtEndLine, DeclarationLine, CloseParagraphLine>>)
    /\ wordResult[1].contentElements =
           <<Element("paragraph", <<"u", " ", "const">>, 0),
             Element("paragraph", <<"v">>, 0)>>

---------------------------------------------------------------------------
(* The font of the Word document and the font of the rendered markup.      *)

\* getTheme(name) returns, in this step, the definition generated for the
\* discovered theme of that name.
ReturnsGenerated(name) ==
    /\ tmResult' # tmResult
    /\ tmResult'[1].status = "ok"
    /\ tmResult'[1].name = name
    /\ \E info \in getAvailableThemes :
           /\ info.name = name
           /\ tmResult'[1].theme[1] = generateThemeFromCSS(info)

\* C20: for each of modern, classic, minimal and ats, the font family of the
\* Word document is the first family of the body font of the theme
\* definition that the markup is rendered with.
C20_WordFontIsBodyFont ==
    [][\A name \in TableThemes :
           ReturnsGenerated(name)
               => getThemeFont(name) = Head(tmResult'[1].theme[1].fonts.body)]_vars

---------------------------------------------------------------------------
(* The web editor (src/web/main.ts): the editor, the theme selector, the   *)
(* customization modal, the two timers, the saved data and the preview     *)
(* requests, whose responses come back in any order. Toasts, the height of *)
(* the textarea and the time stamp of the saved data are left out.         *)

\* The most preview requests sent.
MaxPreviews == 2

EditorTexts == {<<>>, <<"a">>, <<"b">>}

\* The themes of the selector; the first is customizable.
WebThemes == {"modern", "classic"}

CustomizableThemes == {"modern"}

\* {} and what the colour inputs of the modal give.
EmptyCustomization == <<>>

AppliedCustomization == [k \in {"primaryColor"} |-> <<"#", "c", "c", "6", "6", "0", "0">>]

\* The body of a preview request, and the request with its place among the
\* requests sent.
PreviewBody(text, theme, customization) ==
    [markdown |-> text, theme |-> theme, customization |-> customization]

PreviewRequest(id, body) ==
    [id |-> id, markdown |-> body.markdown, theme |-> body.theme,
     customization |-> body.customization]

\* What the preview pane can show: the empty state, the error state, and
\* the styled content made from the response to a request.
EmptyState == [kind |-> "empty", body |-> <<>>]

PreviewError == [kind |-> "error", body |-> <<>>]

StyledContent(request) ==
    [kind |-> "html",
     body |-> <<PreviewBody(request.markdown, request.theme, request.customization)>>]

\* updatePreview() up to its await: the empty state for a blank text,
\* otherwise a request with the text, theme and customization of the moment.
UpdatePreview(text, theme, customization) ==
    IF Trim(text) = <<>>
    THEN /\ previewContent' = EmptyState
         /\ UNCHANGED <<previewRequests, issued>>
    ELSE /\ previewRequests' = previewRequests \cup
                {PreviewRequest(issued + 1, PreviewBody(text, theme, customization))}
         /\ issued' = issued + 1
         /\ UNCHANGED previewContent

\* Whether updatePreview() can run within the bound on the requests.
CanPreview(text) == Trim(text) = <<>> \/ issued < MaxPreviews

\* saveToLocalStorage()
SaveToLocalStorage(text, theme, customization) ==
    localStorage' = <<PreviewBody(text, theme, customization)>>

\* The input handler of the editor: debouncePreview() and debounceSave().
EditorInput(text) ==
    /\ text # editorValue
    /\ editorValue' = text
    /\ debounceTimer' = TRUE
    /\ saveTimer' = TRUE
    /\ UNCHANGED <<currentTheme, currentCustomization, localStorage, modal,
                   previewRequests, issued, previewContent, atsWarnings>>
    /\ UNCHANGED <<parserVars, colorVars, fsVars, registryVars, managerVars, converterVars>>

\* The callback of the preview timer.
PreviewTimerFires ==
    /\ debounceTimer
    /\ CanPreview(editorValue)
    /\ debounceTimer' = FALSE
    /\ UpdatePreview(editorValue, currentTheme, currentCustomization)
    /\ UNCHANGED <<editorValue, currentTheme, currentCustomization, saveTimer,
                   localStorage, modal, atsWarnings>>
    /\ UNCHANGED <<parserVars, colorVars, fsVars, registryVars, managerVars, converterVars>>

\* The callback of the save timer.
SaveTimerFires ==
    /\ saveTimer
    /\ saveTimer' = FALSE
    /\ SaveToLocalStorage(editorValue, currentTheme, currentCustomization)
    /\ UNCHANGED <<editorValue, currentTheme, currentCustomization, debounceTimer,
                   modal, previewRequests, issued, previewContent, atsWarnings>>
    /\ UNCHANGED <<parserVars, colorVars, fsVars, registryVars, managerVars, converterVars>>

\* The change handler of the theme selector.
ThemeChange(theme) ==
    /\ theme # currentTheme
    /\ CanPreview(editorValue)
    /\ currentTheme' = theme
    /\ UpdatePreview(editorValue, theme, currentCustomization)
    /\ SaveToLocalStorage(editorValue, theme, currentCustomization)
    /\ UNCHANGED <<editorValue, currentCustomization, debounceTimer, saveTimer,
                   modal, atsWarnings>>
    /\ UNCHANGED <<parserVars, colorVars, fsVars, registryVars, managerVars, converterVars>>

\* The clear button, confirmed.
ClearEditor ==
    /\ editorValue # <<>>
    /\ editorValue' = <<>>
    /\ UpdatePreview(<<>>, currentTheme, currentCustomization)
    /\ SaveToLocalStorage(<<>>, currentTheme, currentCustomization)
    /\ UNCHANGED <<currentTheme, currentCustomization, debounceTimer, saveTimer,
                   modal, atsWarnings>>
    /\ UNCHANGED <<parserVars, colorVars, fsVars, registryVars, managerVars, converterVars>>

\* clearSavedData(), confirmed.
ClearSavedData ==
    /\ localStorage # <<>>
    /\ localStorage' = <<>>
    /\ UNCHANGED <<editorValue, currentTheme, currentCustomization, debounceTimer,
                   saveTimer, modal, previewRequests, issued, previewContent,
                   atsWarnings>>
    /\ UNCHANGED <<parserVars, colorVars, fsVars, registryVars, managerVars, converterVars>>

\* async openThemeCustomization() up to its await, for a customizable theme.
OpenThemeCustomization ==
    /\ modal = "closed"
    /\ currentTheme \in CustomizableThemes
    /\ modal' = "loading"
    /\ UNCHANGED <<editorValue, currentTheme, currentCustomization, debounceTimer,
                   saveTimer, localStorage, previewRequests, issued,
                   previewContent, atsWarnings>>
    /\ UNCHANGED <<parserVars, colorVars, fsVars, registryVars, managerVars, converterVars>>

\* The customization options arrive and the modal is shown, or the fetch
\* fails and it is not.
CustomizationLoaded(ok) ==
    /\ modal = "loading"
    /\ modal' = IF ok THEN "open" ELSE "closed"
    /\ UNCHANGED <<editorValue, currentTheme, currentCustomization, debounceTimer,
                   saveTimer, localStorage, previewRequests, issued,
                   previewContent, atsWarnings>>
    /\ UNCHANGED <<parserVars, colorVars, fsVars, registryVars, managerVars, converterVars>>

\* closeThemeCustomization(), from the close button or a click outside.
CloseThemeCustomization ==
    /\ modal = "open"
    /\ modal' = "closed"
    /\ UNCHANGED <<editorValue, currentTheme, currentCustomization, debounceTimer,
                   saveTimer, localStorage, previewRequests, issued,
                   previewContent, atsWarnings>>
    /\ UNCHANGED <<parserVars, colorVars, fsVars, registryVars, managerVars, converterVars>>

\* applyCustomization() and resetCustomization(), from the buttons of the
\* modal: the customization is set, the preview asked for, the data saved
\* and the modal closed.
SetCustomization(customization) ==
    /\ modal = "open"
    /\ CanPreview(editorValue)
    /\ currentCustomization' = customization
    /\ UpdatePreview(editorValue, currentTheme, customization)
    /\ SaveToLocalStorage(editorValue, currentTheme, customization)
    /\ modal' = "closed"
    /\ UNCHANGED <<editorValue, currentTheme, debounceTimer, saveTimer, atsWarnings>>
    /\ UNCHANGED <<parserVars, colorVars, fsVars, registryVars, managerVars, converterVars>>

ApplyCustomization == SetCustomization(AppliedCustomization)

ResetCustomization == SetCustomization(EmptyCustomization)

\* updatePreview() after its awaits, for a response that is ok: the pane
\* shows the styled content of the response, and the warnings are made from
\* the text the editor has now.
PreviewSucceeds(request) ==
    /\ request \in previewRequests
    /\ previewRequests' = previewRequests \ {request}
    /\ previewContent' = StyledContent(request)
    /\ atsWarnings' = <<editorValue>>
    /\ UNCHANGED <<editorValue, currentTheme, currentCustomization, debounceTimer,
                   saveTimer, localStorage, modal, issued>>
    /\ UNCHANGED <<parserVars, colorVars, fsVars, registryVars, managerVars, converterVars>>

\* The same for a fetch that fails or a response that is not ok.
PreviewFails(request) ==
    /\ request \in previewRequests
    /\ previewRequests' = previewRequests \ {request}
    /\ previewContent' = PreviewError
    /\ UNCHANGED <<editorValue, currentTheme, currentCustomization, debounceTimer,
                   saveTimer, localStorage, modal, issued, atsWarnings>>
    /\ UNCHANGED <<parserVars, colorVars, fsVars, registryVars, managerVars, converterVars>>

\* What localStorage holds when the page is opened.
StoredChoices ==
    {<<>>, <<PreviewBody(<<"a">>, "classic", AppliedCustomization)>>}

\* The state once init() has run: the saved data restored, and the first
\* updatePreview() made.
InitWeb ==
    /\ localStorage \in StoredChoices
    /\ editorValue = IF localStorage # <<>> THEN localStorage[1].markdown ELSE <<>>
    /\ currentTheme = IF localStorage # <<>> THEN localStorage[1].theme ELSE "modern"
    /\ currentCustomization =
           IF localStorage # <<>> THEN localStorage[1].customization
           ELSE EmptyCustomization
    /\ debounceTimer = FALSE
    /\ saveTimer = FALSE
    /\ modal = "closed"
    /\ previewRequests =
           IF Trim(editorValue) = <<>> THEN {}
           ELSE {PreviewRequest(1, PreviewBody(editorValue, currentTheme,
                                               currentCustomization))}
    /\ issued = Cardinality(previewRequests)
    /\ previewContent = IF Trim(editorValue) = <<>> THEN EmptyState ELSE <<>>
    /\ atsWarnings = <<>>
    /\ ParserIdle
    /\ ColorIdle
    /\ RegistryIdle
    /\ ManagerIdle
    /\ ConverterIdle

NextWeb ==
    \/ \E text \in EditorTexts : EditorInput(text)
    \/ PreviewTimerFires
    \/ SaveTimerFires
    \/ \E theme \in WebThemes : ThemeChange(theme)
    \/ ClearEditor
    \/ ClearSavedData
    \/ OpenThemeCustomization
    \/ \E ok \in BOOLEAN : CustomizationLoaded(ok)
    \/ CloseThemeCustomization
    \/ ApplyCustomization
    \/ ResetCustomization
    \/ \E request \in previewRequests : PreviewSucceeds(request)
    \/ \E request \in previewRequests : PreviewFails(request)

SpecWeb == InitWeb /\ [][NextWeb]_vars

\* No preview request is in flight and none is waiting for its timer.
PreviewsCompleted == previewRequests = {} /\ ~debounceTimer

\* What the pane is to show for the text, theme and customization of the
\* moment.
CurrentRendering ==
    [kind |-> "html",
     body |-> <<PreviewBody(editorValue, currentTheme, currentCustomization)>>]

\* C30: once all the preview requests have completed, the preview pane shows
\* the response to the request sent last, the rendering of the text, theme
\* and customization the editor has now (the empty state for a blank text,
\* or the error state when a request failed): the response to an older
\* request does not replace a newer one.
C30_PreviewShowsLatest ==
    PreviewsCompleted =>
        IF Trim(editorValue) = <<>> THEN previewContent = EmptyState
        ELSE previewContent \in {CurrentRendering, PreviewError}


===========================================================================
